---- MODULE Spec2Model ----
(***************************************************************************)
(* Model of the OSINT collection extension (adaOctopus/opnfrt-devchallenge).*)
(*                                                                         *)
(* This part models the background service worker (src/src/background.ts): *)
(* the message handler with its identifier validation, the orchestrator    *)
(* collectOSINTData with its tab lifecycle helpers (createScrapingTab,     *)
(* waitForTabLoad, closeTab), and the outer shape of the three scrapers    *)
(* (createPage outside the try, body inside try/catch, detach in finally). *)
(*                                                                         *)
(* Further parts model the identifier pattern on its own (SpecIp), the     *)
(* protocol sessions of src/src/modules/cdp/core.ts, CDPContext, against   *)
(* a debugger host (SpecCdp), and Page.goto on top of a session with its   *)
(* fallback timer (SpecNav), the polling page operations waitForSelector,  *)
(* textContent, textContents, getAttribute, click and fill (SpecPage),     *)
(* waitForNetworkIdle (SpecNet), and the step lists of the scrapers of     *)
(* src/unnamed/part_001 (SpecScraper).                                     *)
(*                                                                         *)
(* One action is one run of JavaScript between two suspension points of    *)
(* the single-threaded event loop: a host callback, a timer, or a promise  *)
(* continuation together with everything it runs synchronously.            *)
(***************************************************************************)
EXTENDS Integers, Sequences, FiniteSets, TLC

VARIABLES
    request,       \* the last message given to the onMessage listener
    response,      \* what sendResponse of the last message was given, if anything
    handled,       \* number of messages delivered so far
    getPending,    \* <<key>> while a chrome.storage.local.get is in flight
    pc,            \* position of collectOSINTData
    cur,           \* index of the source whose chrome.tabs.create is in flight
    tabs,          \* the local `tabs` object: TRUE when tabs.<source> is non-null
    tabHost,       \* the browser's state of each tab
    createCalls,   \* chrome.tabs.create calls per source
    closeCalls,    \* closeTab calls per source
    closePending,  \* sources whose chrome.tabs.remove callback has not run
    loadListener,  \* waitForTabLoad: onUpdated listener registered
    statusQuery,   \* waitForTabLoad: chrome.tabs.get callback pending
    settleTimers,  \* waitForTabLoad: pending setTimeout(resolve, 2000)
    loadResolved,  \* waitForTabLoad: promise resolved
    task,          \* position of each scraper call
    taskData,      \* what the scraper's try/catch produced
    threw,         \* the source whose scraper call threw synchronously
    results,       \* the `results` object of collectOSINTData
    runState,      \* state of the promise returned by collectOSINTData
    returned,      \* <<Report>> as it was when the promise resolved
    storage,       \* chrome.storage.local: set of [key, value]
    probe,         \* validation harness: the identifier under test
    probeParts,    \* validation harness: dot-separated pieces put into probe
    verdict,       \* validation harness: what ipRegex.test(probe) answered
    attached,      \* CDPContext.attached of each session
    eventListeners,\* CDPContext.eventListeners: event name -> handlers in order
    listenerSet,   \* CDPContext._listener is not null
    hostSubs,      \* chrome.debugger.onEvent: listeners of each session subscribed
    hostAttached,  \* the host has a debugger attached to the tab
    attachCalls,   \* chrome.debugger.attach calls whose callback has not run
    detachCalls,   \* chrome.debugger.detach calls whose callback has not run
    commandCalls,  \* chrome.debugger.sendCommand calls whose callback has not run
    calls,         \* calls made to the sessions and pages so far
    nav,           \* Page.goto of each session's page: position and closure state
    clock,         \* time units passed
    last,          \* what the last turn of the event loop did
    po,            \* the operation in progress on the page of NavSession
    dom,           \* what the selector of that operation matches in the tab
    now,           \* Date.now() in polling intervals of 500 ms, counted from
                   \* the last call of a method of the page (by the caller,
                   \* or of click by fill)
    ni,            \* the waitForNetworkIdle of the page of NavSession
    traffic,       \* the requests of the tab of NavSession
    scr            \* the scraper call that owns NavSession

\* The service worker's variables.
orchVars == <<request, response, handled, getPending, pc, cur, tabs, tabHost,
              createCalls, closeCalls, closePending, loadListener, statusQuery,
              settleTimers, loadResolved, task, taskData, threw, results,
              runState, returned, storage>>

\* The variables of the identifier validation harness.
ipVars == <<probe, probeParts, verdict>>

\* The variables of the protocol sessions (CDPContext) and the host behind
\* them.
sessVars == <<attached, eventListeners, listenerSet, hostSubs, hostAttached,
              attachCalls, detachCalls, commandCalls, calls, last>>

sessVarsButLast == <<attached, eventListeners, listenerSet, hostSubs,
                     hostAttached, attachCalls, detachCalls, commandCalls,
                     calls>>

\* The variables of the pages (Page) on top of the sessions.
pageVars == <<nav, clock>>

cdpVars == <<sessVars, pageVars>>

\* The variables of the operations of a page other than goto.
netVars == <<ni, traffic>>

opVars == <<po, dom, now, netVars, scr>>

\* Variables the actions of the sessions and of goto leave alone.
nonCdpVars == <<orchVars, ipVars, opVars>>

\* Variables the service worker's actions leave alone.
auxVars == <<ipVars, cdpVars, opVars>>

vars == <<orchVars, auxVars>>

(***************************************************************************)
(* Bounds                                                                  *)
(***************************************************************************)
\* Messages delivered to the listener in one behaviour.
MaxMessages == 2

\* Dot-separated pieces of an identifier put to ipRegex in the validation
\* harness.
MaxParts == 5

\* Calls made to the sessions and their pages (attach, detach, sendCommand,
\* on, off, goto) in one behaviour.
MaxCalls == 4

\* Time units a behaviour is followed for.
MaxClock == 8

\* Time units a due timer callback may have to wait for the event loop.
Slack == 1

\* The fallback delay of Page.goto, setTimeout(..., 5000), in time units.
FallbackDelay == 5

\* Polling intervals Date.now() is followed for.
MaxNow == 64

\* Requests the tab begins.
MaxRequests == 2

\* _sleep(500) between two polls of waitForSelector, in polling intervals.
PollInterval == 1

\* _sleep(1000) of waitForSelector('body'), in polling intervals.
BodySettle == 2

\* options.timeout || 30000 of waitForSelector, in polling intervals.
DefaultTimeout == 60

\* _sleep(100) of fill, in polling intervals: the timer is due within the
\* interval in which it was set.
FocusSettle == 0

(***************************************************************************)
(* Sources and identifiers                                                 *)
(***************************************************************************)
\* The three sources, in the order collectOSINTData creates and launches them.
Sources == <<"virustotal", "ipinfo", "abuseipdb">>

Source == {Sources[i] : i \in 1..Len(Sources)}

SrcIndex(s) == CHOOSE i \in 1..Len(Sources) : Sources[i] = s

\* The `source` each per-task .catch() writes into results.errors.
ErrName == [virustotal |-> "VirusTotal", ipinfo |-> "IPInfo", abuseipdb |-> "AbuseIPDB"]

\* Identifiers are sequences of one-character strings.
Digits == {"0", "1", "2", "3", "4", "5", "6", "7", "8", "9"}

Ip_1_1_1_1 == <<"1", ".", "1", ".", "1", ".", "1">>

Ip_255_0_01_199 == <<"2", "5", "5", ".", "0", ".", "0", "1", ".", "1", "9", "9">>

Ip_999 == <<"9", "9", "9", ".", "9", "9", "9", ".", "9", "9", "9", ".", "9", "9", "9">>

Ip_not_an_ip == <<"n", "o", "t", "-", "a", "n", "-", "i", "p">>

Ip_256_1_1_1 == <<"2", "5", "6", ".", "1", ".", "1", ".", "1">>

Ip_1_1_1 == <<"1", ".", "1", ".", "1">>

Ip_1_1_1_1_dot == <<"1", ".", "1", ".", "1", ".", "1", ".">>

\* The identifiers a message may carry; <<>> stands for a missing or empty one.
IpInputs == {<<>>, Ip_1_1_1_1, Ip_255_0_01_199, Ip_999, Ip_not_an_ip,
             Ip_256_1_1_1, Ip_1_1_1, Ip_1_1_1_1_dot}

MessageActions == {"collectOSINT", "getStoredResults", "other"}

(***************************************************************************)
(* ipRegex:                                                                *)
(* /^(?:(?:25[0-5]|2[0-4][0-9]|[01]?[0-9][0-9]?)\.){3}                     *)
(*    (?:25[0-5]|2[0-4][0-9]|[01]?[0-9][0-9]?)$/                           *)
(***************************************************************************)
OctetAlt1_UpTo259(p) ==
    /\ Len(p) = 3
    /\ p[1] = "2" /\ p[2] = "5" /\ p[3] \in Digits

\* 25[0-5]
OctetAlt1(p) ==
    /\ Len(p) = 3
    /\ p[1] = "2" /\ p[2] = "5" /\ p[3] \in {"0", "1", "2", "3", "4", "5"}

\* 2[0-4][0-9]
OctetAlt2(p) ==
    /\ Len(p) = 3
    /\ p[1] = "2" /\ p[2] \in {"0", "1", "2", "3", "4"} /\ p[3] \in Digits

\* [01]?[0-9][0-9]?
OctetAlt3(p) ==
    \/ Len(p) = 1 /\ p[1] \in Digits
    \/ Len(p) = 2 /\ p[1] \in Digits /\ p[2] \in Digits
    \/ Len(p) = 3 /\ p[1] \in {"0", "1"} /\ p[2] \in Digits /\ p[3] \in Digits

OctetMatch(p) == OctetAlt1(p) \/ OctetAlt2(p) \/ OctetAlt3(p)

\* Positions of the dots of s, in increasing order.
DotPositions(s) == {i \in 1..Len(s) : s[i] = "."}

\* The piece of s strictly between positions a and b.
Piece(s, a, b) == [i \in 1..(b - a - 1) |-> s[a + i]]

ipRegexTest_AcceptsAnything(s) == TRUE

\* ipRegex.test(s): three "octet." groups then a last octet, anchored at both
\* ends.  An octet holds no dot, so the three dots of a match are all the dots.
ipRegexTest(s) ==
    /\ Cardinality(DotPositions(s)) = 3
    /\ \E a, b, c \in DotPositions(s) :
          /\ a < b /\ b < c
          /\ OctetMatch(Piece(s, 0, a))
          /\ OctetMatch(Piece(s, a, b))
          /\ OctetMatch(Piece(s, b, c))
          /\ OctetMatch(Piece(s, c, Len(s) + 1))

(***************************************************************************)
(* Reports                                                                 *)
(***************************************************************************)
\* const results = { ip, timestamp, sources: {}, errors: [] }
NewResults(ip) ==
    [ip |-> ip, sources |-> [s \in Source |-> "absent"], errors |-> <<>>]

\* results.errors.push({ source, error })
PushError(r, src) == [r EXCEPT !.errors = Append(@, src)]

\* results.sources.<s> = data
SetSlot(r, s, data) == [r EXCEPT !.sources[s] = data]

StorageKey(ip) == <<"osint_">> \o ip

\* chrome.storage.local.set({ [key]: value })
StorageSet(st, key, value) ==
    {e \in st : e.key # key} \cup {[key |-> key, value |-> value]}

\* result[key] || null, as a sequence of at most one Report
StorageGet(st, key) ==
    IF \E e \in st : e.key = key
    THEN <<(CHOOSE e \in st : e.key = key).value>>
    ELSE <<>>

NoRequest == [action |-> "none", ipAddress |-> <<>>]

NoResponse == [kind |-> "none", success |-> FALSE, error |-> "", data |-> <<>>]

ErrorResponse(msg) == [kind |-> "error", success |-> FALSE, error |-> msg, data |-> <<>>]

DataResponse(d) == [kind |-> "data", success |-> TRUE, error |-> "", data |-> d]

(***************************************************************************)
(* Initial state: the service worker has registered its listener.          *)
(***************************************************************************)
\* The tabs that get a session; CDPContext.tabId is the tab.
Session == {1, 2}

\* The event names the pages listen to.
EventName == {"Page.loadEventFired", "Page.frameStoppedLoading"}

\* Handlers that callers of on() register: hLog leaves the listener table
\* alone, hOnce calls off for itself when invoked, hDrop calls off for hLog
\* when invoked; each calls off with the event name it was invoked for.
CallerHandler == {"hLog", "hOnce", "hDrop"}

\* The closures Page.goto registers.
GotoHandler == {"onLoad", "onFrameLoad"}

\* new Map(): no handler under any event name.
NoListeners == [e \in EventName |-> <<>>]

\* A page on which goto was not called.
NavIdle == [pc |-> "idle", resolved |-> FALSE, timer |-> FALSE, armedAt |-> 0,
            resolves |-> 0, by |-> "none"]

\* A turn of the event loop: what ran, for which session, with what outcome;
\* for an event: its name, its parameters, the handlers its session had
\* under that name when it arrived, the handlers invoked on each session.
NoTurn == [op |-> "none", s |-> 0, name |-> "none", result |-> "none",
           params |-> "none", before |-> <<>>,
           invoked |-> [s \in Session |-> <<>>]]

\* new CDPContext(tabId) and new Page(context) for each tab; the host has no
\* debugger attached.
CdpIdle ==
    /\ attached = [s \in Session |-> FALSE]
    /\ eventListeners = [s \in Session |-> NoListeners]
    /\ listenerSet = [s \in Session |-> FALSE]
    /\ hostSubs = [s \in Session |-> 0]
    /\ hostAttached = [s \in Session |-> FALSE]
    /\ attachCalls = [s \in Session |-> 0]
    /\ detachCalls = [s \in Session |-> 0]
    /\ commandCalls = [s \in Session |-> 0]
    /\ calls = 0
    /\ nav = [s \in Session |-> NavIdle]
    /\ clock = 0
    /\ last = NoTurn

\* The session whose page navigates and runs the operations.
NavSession == 1

\* No operation was called on the page.  An operation is [name, pc, sel,
\* visible, timeout, text, waits, start, due, poll, reply, box, value, error,
\* sent]: the method called, its position, its selector and options, the
\* text to fill in, how many of its waitForSelector calls have returned,
\* startTime, the time its pending timer is due, the value of the last poll
\* answered to its latest waitForSelector, the value of its evaluation and
\* the centre it reported, what the method returned, what it threw, and the
\* pointer and key events it handed to the host.
NoOp == [name |-> "none", pc |-> "idle", sel |-> "none", visible |-> FALSE,
         timeout |-> 0, text |-> <<>>, waits |-> 0, start |-> 0, due |-> 0,
         poll |-> "none", reply |-> "none", box |-> <<0, 0>>,
         value |-> "none", error |-> "none", sent |-> <<>>]

\* waitForNetworkIdle was not called.  The call is [pc, timeout, since, count,
\* timer, due, by, handlers, resolves]: its position, its argument, when its
\* handlers were registered, requestCount, whether the timer in idleTimer is
\* pending, when it is due and which setTimeout made it, the handlers it has
\* in the listener table, and how often resolve() ran.
NoWait == [pc |-> "idle", timeout |-> 0, since |-> 0, count |-> 0,
           timer |-> FALSE, due |-> 0, by |-> "none", handlers |-> {},
           resolves |-> 0]

\* No request was begun in the tab.  The requests are [seen, unseen, begun,
\* sawOne, lastEnd]: the requests in flight whose begin the handlers of the
\* wait saw and those whose begin they did not see, the requests begun so
\* far, whether onRequest ever ran, and when a request it saw ended last.
NoTraffic == [seen |-> 0, unseen |-> 0, begun |-> 0, sawOne |-> FALSE,
              lastEnd |-> 0]

\* No scraper was called.  A scraper call is [src, pc, i, tried, failed,
\* thrower, result, promise]: the source scraped, the position of the call,
\* the step of the try block that is next, the steps that ran, the fields
\* whose guarded read threw, the step whose exception reached the outer
\* catch, what the try or the catch block returned, and the state of the
\* promise of the call.
NoScrape == [src |-> "none", pc |-> "idle", i |-> 0, tried |-> {},
             failed |-> {}, thrower |-> "none", result |-> "none",
             promise |-> "pending"]

OpIdle ==
    /\ scr = NoScrape
    /\ po = NoOp
    /\ dom = "absent"
    /\ now = 0
    /\ ni = NoWait
    /\ traffic = NoTraffic

IpIdle ==
    /\ probe = <<>>
    /\ probeParts = 0
    /\ verdict = "none"

Init ==
    /\ IpIdle
    /\ CdpIdle
    /\ OpIdle
    /\ request = NoRequest
    /\ response = NoResponse
    /\ handled = 0
    /\ getPending = <<>>
    /\ pc = "idle"
    /\ cur = 0
    /\ tabs = [s \in Source |-> FALSE]
    /\ tabHost = [s \in Source |-> "none"]
    /\ createCalls = [s \in Source |-> 0]
    /\ closeCalls = [s \in Source |-> 0]
    /\ closePending = {}
    /\ loadListener = [s \in Source |-> FALSE]
    /\ statusQuery = [s \in Source |-> FALSE]
    /\ settleTimers = [s \in Source |-> 0]
    /\ loadResolved = [s \in Source |-> FALSE]
    /\ task = [s \in Source |-> "notLaunched"]
    /\ taskData = [s \in Source |-> "none"]
    /\ threw = "none"
    /\ results = NewResults(<<>>)
    /\ runState = "none"
    /\ returned = <<>>
    /\ storage = {}

runVars == <<pc, cur, tabs, tabHost, createCalls, closeCalls, closePending,
             loadListener, statusQuery, settleTimers, loadResolved, task,
             taskData, threw, results, runState, returned, storage>>


(***************************************************************************)
(* Teardown and the catch block of collectOSINTData                        *)
(***************************************************************************)
TabsToClose_SkipsLast(t) == {s \in Source : t[s] /\ s # Sources[Len(Sources)]}

\* The tabs the finally block passes to closeTab: every non-null tabs.<s>.
TabsToClose(t) == {s \in Source : t[s]}

\* The promise of collectOSINTData resolves with `results`; the listener's
\* .then() answers sendResponse({success: true, data: results}).
ResolveRun(r) ==
    /\ runState' = "resolved"
    /\ returned' = <<r>>
    /\ response' = DataResponse(<<r>>)
    /\ pc' = "done"

\* The promise of collectOSINTData rejects; the listener's .catch() answers
\* sendResponse({success: false, error}).
RejectRun ==
    /\ runState' = "rejected"
    /\ returned' = returned
    /\ response' = ErrorResponse("collection failed")
    /\ pc' = "done"

\* finally { ... closePromises.push(closeTab(id)) ...; await Promise.all(...) }
\* One chrome.tabs.remove call per tab to close; with nothing to close the
\* await continues in the same run of the event loop and the function returns
\* r, the value of `results` at this point.
Finally(t, r) ==
    /\ closeCalls' = [s \in Source |->
                        IF s \in TabsToClose(t) THEN closeCalls[s] + 1 ELSE closeCalls[s]]
    /\ closePending' = TabsToClose(t)
    /\ IF TabsToClose(t) = {}
       THEN ResolveRun(r)
       ELSE /\ pc' = "closing"
            /\ UNCHANGED <<runState, returned, response>>

CatchBlock_SwallowsError(r, t) ==
    /\ results' = r
    /\ Finally(t, r)

\* catch (error) { results.errors.push({source: 'Orchestration', ...}); return results }
\* followed, in the same run of the event loop, by the finally block.
CatchBlock(r, t) ==
    /\ results' = PushError(r, "Orchestration")
    /\ Finally(t, PushError(r, "Orchestration"))

(***************************************************************************)
(* chrome.runtime.onMessage listener                                       *)
(***************************************************************************)
\* collectOSINTData(ip) up to its first await: the results object is built and
\* the first chrome.tabs.create is issued.
StartCollect(ip) ==
    /\ results' = NewResults(ip)
    /\ runState' = "pending"
    /\ createCalls' = [createCalls EXCEPT ![Sources[1]] = @ + 1]
    /\ cur' = 1
    /\ pc' = "creating"
    /\ UNCHANGED <<getPending, tabs, tabHost, closeCalls, closePending,
                   loadListener, statusQuery, settleTimers, loadResolved, task,
                   taskData, threw, returned, storage>>

\* request.action === 'collectOSINT'
HandleCollect(ip) ==
    IF ip = <<>>
    THEN /\ response' = ErrorResponse("IP address is required")
         /\ UNCHANGED <<getPending, runVars>>
    ELSE IF ~ipRegexTest(ip)
    THEN /\ response' = ErrorResponse("Invalid IP address format")
         /\ UNCHANGED <<getPending, runVars>>
    ELSE /\ pc = "idle"      \* one collection per behaviour
         /\ response' = NoResponse
         /\ StartCollect(ip)

\* request.action === 'getStoredResults'
HandleGetStored_Collects(ip) == HandleCollect(ip)

HandleGetStored(ip) ==
    IF ip = <<>>
    THEN /\ response' = ErrorResponse("IP address is required")
         /\ UNCHANGED <<getPending, runVars>>
    ELSE /\ getPending' = <<StorageKey(ip)>>
         /\ response' = NoResponse
         /\ UNCHANGED runVars

\* The listener is given one message, with a sendResponse of its own.
\* Messages are delivered while no collection is between its start and its
\* return.
OnMessage(act, ip) ==
    /\ handled < MaxMessages
    /\ pc \in {"idle", "done"}
    /\ getPending = <<>>
    /\ request' = [action |-> act, ipAddress |-> ip]
    /\ handled' = handled + 1
    /\ CASE act = "collectOSINT" -> HandleCollect(ip)
         [] act = "getStoredResults" -> HandleGetStored(ip)
         [] OTHER -> response' = NoResponse /\ UNCHANGED <<getPending, runVars>>
    /\ UNCHANGED auxVars

\* Callback of chrome.storage.local.get: sendResponse({success: true, data})
StorageGetCallback ==
    /\ getPending # <<>>
    /\ response' = DataResponse(StorageGet(storage, getPending[1]))
    /\ getPending' = <<>>
    /\ UNCHANGED <<request, handled, runVars>>
    /\ UNCHANGED auxVars

(***************************************************************************)
(* createScrapingTab and the creation phase                                *)
(***************************************************************************)
\* waitForTabLoad(id) for every tab, up to the await of Promise.all: each call
\* registers its onUpdated listener and issues chrome.tabs.get.
StartLoadWaits ==
    /\ loadListener' = [s \in Source |-> TRUE]
    /\ statusQuery' = [s \in Source |-> TRUE]
    /\ pc' = "waitLoad"
    /\ cur' = 0

\* Callback of chrome.tabs.create for Sources[cur].  ok = FALSE stands for
\* chrome.runtime.lastError or a tab without id: createScrapingTab rejects.
CreateCallback(ok) ==
    /\ pc = "creating"
    /\ LET s == Sources[cur] IN
       IF ok
       THEN /\ tabs' = [tabs EXCEPT ![s] = TRUE]
            /\ tabHost' = [tabHost EXCEPT ![s] = "loading"]
            /\ IF cur < Len(Sources)
               THEN /\ createCalls' = [createCalls EXCEPT ![Sources[cur + 1]] = @ + 1]
                    /\ cur' = cur + 1
                    /\ UNCHANGED <<pc, loadListener, statusQuery>>
               ELSE /\ StartLoadWaits
                    /\ UNCHANGED createCalls
            /\ UNCHANGED <<results, closeCalls, closePending, runState,
                           returned, response>>
       ELSE /\ CatchBlock(results, tabs)
            /\ cur' = 0
            /\ UNCHANGED <<tabs, tabHost, createCalls, loadListener, statusQuery>>
    /\ UNCHANGED <<request, handled, getPending, settleTimers, loadResolved,
                   task, taskData, threw, storage>>
    /\ UNCHANGED auxVars

(***************************************************************************)
(* The browser's tabs                                                      *)
(***************************************************************************)
\* waitForTabLoad's listener sees status 'complete' for its tab: it removes
\* itself and starts the settle timer.
OnUpdatedComplete(s) ==
    IF loadListener[s]
    THEN /\ loadListener' = [loadListener EXCEPT ![s] = FALSE]
         /\ settleTimers' = [settleTimers EXCEPT ![s] = @ + 1]
    ELSE UNCHANGED <<loadListener, settleTimers>>

\* The browser finishes loading a tab and fires chrome.tabs.onUpdated.
TabCompletes(s) ==
    /\ tabHost[s] = "loading"
    /\ tabHost' = [tabHost EXCEPT ![s] = "complete"]
    /\ OnUpdatedComplete(s)
    /\ UNCHANGED <<request, response, handled, getPending, pc, cur, tabs,
                   createCalls, closeCalls, closePending, statusQuery,
                   loadResolved, task, taskData, threw, results, runState,
                   returned, storage>>
    /\ UNCHANGED auxVars

\* The tab disappears (closed by the user, crashed) before waitForTabLoad
\* has seen it complete; later the orchestrator no longer looks at the tab.
TabGoes(s) ==
    /\ tabHost[s] \in {"loading", "complete"}
    /\ pc \in {"creating", "waitLoad"}
    /\ settleTimers[s] = 0 /\ ~loadResolved[s]
    /\ tabHost' = [tabHost EXCEPT ![s] = "gone"]
    /\ UNCHANGED <<request, response, handled, getPending, pc, cur, tabs,
                   createCalls, closeCalls, closePending, loadListener,
                   statusQuery, settleTimers, loadResolved, task, taskData,
                   threw, results, runState, returned, storage>>
    /\ UNCHANGED auxVars

(***************************************************************************)
(* waitForTabLoad                                                          *)
(***************************************************************************)
\* Callback of chrome.tabs.get.  A complete tab stops the listener and starts
\* the settle timer; for a tab that no longer exists `tab` is undefined and
\* reading tab.status throws inside the callback, which resolves nothing.
TabsGetCallback(s) ==
    /\ statusQuery[s]
    /\ statusQuery' = [statusQuery EXCEPT ![s] = FALSE]
    /\ IF tabHost[s] = "complete"
       THEN /\ loadListener' = [loadListener EXCEPT ![s] = FALSE]
            /\ settleTimers' = [settleTimers EXCEPT ![s] = @ + 1]
       ELSE UNCHANGED <<loadListener, settleTimers>>
    /\ UNCHANGED <<request, response, handled, getPending, pc, cur, tabs,
                   tabHost, createCalls, closeCalls, closePending, loadResolved,
                   task, taskData, threw, results, runState, returned, storage>>
    /\ UNCHANGED auxVars

(***************************************************************************)
(* The scraping phase of collectOSINTData                                  *)
(***************************************************************************)
\* The sources whose scraper is called before the call for `thrower` throws:
\* the calls are made in the order of Sources, each guarded by tabs.<s>?.id.
LaunchedBefore(thrower) ==
    IF thrower = "none"
    THEN {s \in Source : tabs[s]}
    ELSE {s \in Source : tabs[s] /\ SrcIndex(s) < SrcIndex(thrower)}

\* The three `if (tabs.<s>?.id) scrapingPromises.push(<scraper>(id, ip)...)`
\* statements.  Each scraper is an async function that runs up to its first
\* await, the chrome.debugger.attach of createPage.  `thrower` is the source
\* whose call expression throws synchronously ("none": no call throws); the
\* exception leaves the try block for the catch block.
LaunchTasks(thrower) ==
    /\ thrower \in {"none"} \cup {s \in Source : tabs[s]}
    /\ task' = [s \in Source |->
                  IF s \in LaunchedBefore(thrower) THEN "attaching" ELSE task[s]]
    /\ threw' = thrower
    /\ IF thrower = "none"
       THEN /\ pc' = "awaitTasks"
            /\ UNCHANGED <<results, closeCalls, closePending, runState,
                           returned, response>>
       ELSE CatchBlock(results, tabs)

\* setTimeout(resolve, 2000) fires and resolves the wait for tab s.  What is
\* left of that wait (a second timer, an unanswered chrome.tabs.get) can only
\* resolve the resolved promise again and is dropped here.  When this resolves
\* the last of the three waits, Promise.all resolves and collectOSINTData goes
\* on to launch the scrapers.
SettleTimerFires(s, thrower) ==
    /\ settleTimers[s] > 0
    /\ settleTimers' = [settleTimers EXCEPT ![s] = 0]
    /\ statusQuery' = [statusQuery EXCEPT ![s] = FALSE]
    /\ loadResolved' = [loadResolved EXCEPT ![s] = TRUE]
    /\ IF pc = "waitLoad" /\ \A u \in Source \ {s} : loadResolved[u]
       THEN LaunchTasks(thrower)
       ELSE /\ thrower = "none"
            /\ UNCHANGED <<pc, task, threw, results, closeCalls, closePending,
                           runState, returned, response>>
    /\ UNCHANGED <<request, handled, getPending, cur, tabs, tabHost,
                   createCalls, loadListener, taskData, storage>>
    /\ UNCHANGED auxVars

(***************************************************************************)
(* The scrapers, as collectOSINTData sees them                             *)
(*   const page = await createPage(tabId);       attach, outside the try   *)
(*   try { ...; return data } catch { return {source, ip, error} }         *)
(*   finally { await page.context.detach() }                               *)
(***************************************************************************)
Settled == {"resolved", "rejected"}

\* .then((data) => { results.sources.<s> = data })
TaskThen(r, s, data) == SetSlot(r, s, data)

TaskCatch_DropsError(r, s) == r

\* .catch((error) => { results.errors.push({source: '<Name>', error: ...}) })
TaskCatch(r, s) == PushError(r, ErrName[s])

\* The value of `results` after the continuation of scraper s has run.
AfterContinuation(s, outcome, data) ==
    IF outcome = "resolved" THEN TaskThen(results, s, data) ELSE TaskCatch(results, s)

\* await Promise.all(scrapingPromises) continues once every pushed promise
\* has settled; the function then issues chrome.storage.local.set.
AllTasksSettled(tk) == \A s \in Source : tk[s] \in Settled

\* The promise of scraper s settles and its .then()/.catch() continuation
\* runs.  Every promise in scrapingPromises carries both continuations, so
\* Promise.all never rejects; when this is the last one, collectOSINTData
\* goes on to the storage write.
TaskSettles(s, outcome, data) ==
    /\ task' = [task EXCEPT ![s] = outcome]
    /\ results' = AfterContinuation(s, outcome, data)
    /\ IF pc = "awaitTasks" /\ AllTasksSettled([task EXCEPT ![s] = outcome])
       THEN pc' = "storing"
       ELSE pc' = pc

\* Callback of chrome.debugger.attach (CDPContext.attach, in createPage).
\* Refused: createPage rejects outside the scraper's try block, so the
\* scraper's promise rejects.
AttachCallback(s, ok) ==
    /\ task[s] = "attaching"
    /\ IF ok
       THEN /\ task' = [task EXCEPT ![s] = "scraping"]
            /\ UNCHANGED <<results, pc>>
       ELSE TaskSettles(s, "rejected", "none")
    /\ UNCHANGED <<request, response, handled, getPending, cur, tabs, tabHost,
                   createCalls, closeCalls, closePending, loadListener,
                   statusQuery, settleTimers, loadResolved, taskData, threw,
                   runState, returned, storage>>
    /\ UNCHANGED auxVars

\* The try block ends: with the data object ("data"), or in the scraper's own
\* catch with {source, ip, error} ("failure").  The finally block then calls
\* page.context.detach().
ScrapeFinishes(s, out) ==
    /\ task[s] = "scraping"
    /\ out \in {"data", "failure"}
    /\ taskData' = [taskData EXCEPT ![s] = out]
    /\ task' = [task EXCEPT ![s] = "detaching"]
    /\ UNCHANGED <<request, response, handled, getPending, pc, cur, tabs,
                   tabHost, createCalls, closeCalls, closePending, loadListener,
                   statusQuery, settleTimers, loadResolved, threw, results,
                   runState, returned, storage>>
    /\ UNCHANGED auxVars

\* Callback of chrome.debugger.detach (CDPContext.detach, in the scraper's
\* finally).  On lastError detach rejects and replaces the scraper's result.
DetachCallback(s, ok) ==
    /\ task[s] = "detaching"
    /\ IF ok
       THEN TaskSettles(s, "resolved", taskData[s])
       ELSE TaskSettles(s, "rejected", "none")
    /\ UNCHANGED <<request, response, handled, getPending, cur, tabs, tabHost,
                   createCalls, closeCalls, closePending, loadListener,
                   statusQuery, settleTimers, loadResolved, taskData, threw,
                   runState, returned, storage>>
    /\ UNCHANGED auxVars

(***************************************************************************)
(* Storage write, return and teardown                                      *)
(***************************************************************************)
\* Callback of chrome.storage.local.set: resolve() whatever lastError says;
\* `return results` then runs the finally block.
StoreCallback(ok) ==
    /\ pc = "storing"
    /\ storage' = IF ok
                  THEN StorageSet(storage, StorageKey(results.ip), results)
                  ELSE storage
    /\ Finally(tabs, results)
    /\ UNCHANGED <<request, handled, getPending, cur, tabs, tabHost,
                   createCalls, loadListener, statusQuery, settleTimers,
                   loadResolved, task, taskData, threw, results>>
    /\ UNCHANGED auxVars

closeTab_RejectsOnError(ok) == IF ok THEN "resolved" ELSE "rejected"

\* closeTab: chrome.tabs.remove(tabId, () => { resolve() }) -- the callback
\* does not look at chrome.runtime.lastError.
closeTab(ok) == "resolved"

\* Callback of chrome.tabs.remove for tab s; ok = FALSE stands for lastError
\* (the tab was already gone).  Promise.all(closePromises) rejects on the
\* first rejected closeTab and resolves after the last one.
CloseCallback(s, ok) ==
    /\ s \in closePending
    /\ closePending' = closePending \ {s}
    /\ tabHost' = [tabHost EXCEPT ![s] = "gone"]
    /\ IF runState = "pending" /\ closeTab(ok) = "rejected"
       THEN RejectRun
       ELSE IF runState = "pending" /\ closePending \ {s} = {}
       THEN ResolveRun(results)
       ELSE UNCHANGED <<runState, returned, response, pc>>
    /\ UNCHANGED <<request, handled, getPending, cur, tabs, createCalls,
                   closeCalls, loadListener, statusQuery, settleTimers,
                   loadResolved, task, taskData, threw, results, storage>>
    /\ UNCHANGED auxVars

(***************************************************************************)
(* Specifications                                                          *)
(***************************************************************************)
\* Steps taken by the extension: callbacks and timers the browser always
\* delivers, and promise continuations.
ProgramStep ==
    \/ StorageGetCallback
    \/ \E ok \in BOOLEAN : CreateCallback(ok)
    \/ \E s \in Source : TabsGetCallback(s)
    \/ \E s \in Source, th \in Source \cup {"none"} : SettleTimerFires(s, th)
    \/ \E s \in Source, ok \in BOOLEAN : AttachCallback(s, ok)
    \/ \E s \in Source, out \in {"data", "failure"} : ScrapeFinishes(s, out)
    \/ \E s \in Source, ok \in BOOLEAN : DetachCallback(s, ok)
    \/ \E ok \in BOOLEAN : StoreCallback(ok)
    \/ \E s \in Source, ok \in BOOLEAN : CloseCallback(s, ok)

\* Steps of the environment: a message from the popup, a tab finishing its
\* load, a tab disappearing.
EnvironmentStep ==
    \/ \E act \in MessageActions, ip \in IpInputs : OnMessage(act, ip)
    \/ \E s \in Source : TabCompletes(s)
    \/ \E s \in Source : TabGoes(s)

Next == ProgramStep \/ EnvironmentStep

Spec == Init /\ [][Next]_vars

\* The browser delivers every callback and timer it owes; nothing obliges a
\* page to finish loading or a user to send a message.
FairSpec == Spec /\ WF_vars(ProgramStep)

(***************************************************************************)
(* Properties of collectOSINTData (run) and of the message listener        *)
(***************************************************************************)
Range(q) == {q[i] : i \in 1..Len(q)}

\* run has returned: its promise has settled.
RunReturned == runState \in {"resolved", "rejected"}

\* chrome.tabs.create was called for s and answered with an error.
CreationFailed(s) == createCalls[s] > 0 /\ ~tabs[s] /\ pc # "creating"

\* The scraper of s rejected, or resolved with its own failure result.
TaskFailed(s) ==
    \/ task[s] = "rejected"
    \/ task[s] = "resolved" /\ taskData[s] = "failure"

\* The outcome of the scraper of s is in Report r: its value in its slot, or
\* its rejection in the error list.
Recorded(s, r) ==
    \/ task[s] = "resolved" /\ r.sources[s] = taskData[s]
    \/ task[s] = "rejected" /\ ErrName[s] \in Range(r.errors)

\* C1: every tab that was successfully created is passed to closeTab exactly
\* once on every exit path of run: no tab is closed twice, no tab is closed
\* that was not created, and when run has returned each created tab has been
\* passed to closeTab once.
C1_CreatedTabsClosedOnce ==
    /\ \A s \in Source : closeCalls[s] <= 1
    /\ \A s \in Source : closeCalls[s] = 1 => tabs[s]
    /\ RunReturned => \A s \in Source : tabs[s] => closeCalls[s] = 1

\* C1 witness: run returned through the catch block after a scraper call
\* threw synchronously, with all three tabs created and each closed once.
C1_Witness ==
    /\ runState = "resolved" /\ threw # "none"
    /\ \A s \in Source : tabs[s] /\ closeCalls[s] = 1

\* C2 (as claimed): when one scraper call throws synchronously and nothing
\* else goes wrong, the Report run returns has two success slots, one failed
\* slot and exactly one soft-error, which names the throwing source.
C2_SyncThrowReport ==
    (/\ runState = "resolved"
     /\ threw # "none"
     /\ \A s \in Source \ {threw} : ~TaskFailed(s))
    => LET r == returned[1] IN
       /\ Cardinality({s \in Source : r.sources[s] = "data"}) = 2
       /\ Cardinality({s \in Source : r.sources[s] = "failure"}) = 1
       /\ r.errors = <<ErrName[threw]>>

C4_AnyTroubleHasSoftError ==
    (/\ runState = "resolved"
     /\ \/ threw # "none"
        \/ \E s \in Source : CreationFailed(s) \/ TaskFailed(s))
    => returned[1].errors # <<>>

\* C4 (amended): when a creation failed or a scraper call threw, the returned
\* error list holds an 'Orchestration' entry; when no call threw, the error
\* list holds exactly one entry per rejected task, naming its source -- a task
\* that returned a failure result adds none.
C4_RejectionsAreSoftErrors ==
    runState = "resolved"
    => LET r == returned[1] IN
       /\ (threw # "none" \/ \E s \in Source : CreationFailed(s))
             => "Orchestration" \in Range(r.errors)
       /\ (threw = "none" /\ \A s \in Source : ~CreationFailed(s))
             => /\ Range(r.errors) = {ErrName[s] : s \in {u \in Source : task[u] = "rejected"}}
                /\ Len(r.errors) = Cardinality({u \in Source : task[u] = "rejected"})

\* C4 witness: a Report returned after a creation failure, and (second
\* disjunct) one returned with a rejected task and a failure result.
C4_Witness ==
    /\ runState = "resolved"
    /\ \/ \E s \in Source : CreationFailed(s)
       \/ /\ threw = "none"
          /\ \E a, b \in Source :
                task[a] = "rejected" /\ task[b] = "resolved" /\ taskData[b] = "failure"

\* C5: the promise returned by run never rejects, and once run is over it has
\* resolved with a Report.
C5_RunNeverRejects ==
    /\ runState # "rejected"
    /\ pc = "done" => runState = "resolved" /\ Len(returned) = 1

\* C5 witness: run resolved although a task rejected, another returned a
\* failure result and the storage write failed.
C5_Witness ==
    /\ runState = "resolved" /\ threw = "none" /\ storage = {}
    /\ \E a, b \in Source :
          task[a] = "rejected" /\ task[b] = "resolved" /\ taskData[b] = "failure"

\* C6 (as claimed): every run that has started eventually returns.
C6_RunCompletes == (runState = "pending") ~> (runState = "resolved")

\* waitForTabLoad was called for the tab of s and has not resolved.
LoadAwaited(s) == pc = "waitLoad" /\ tabs[s] /\ ~loadResolved[s]

\* C32: waitForTabLoad never misses a completion.  A wait whose tab is
\* complete, when it is called or at any time after, resolves; it resolves
\* only through a settle timer, which is set only when completion was
\* observed; and when completion was observed the listener for the tab's
\* status is unsubscribed.
C32_NeverMissesCompletion ==
    /\ [](\A s \in Source :
             (settleTimers[s] > 0 \/ loadResolved[s]) => ~loadListener[s])
    /\ \A s \in Source :
           (LoadAwaited(s) /\ tabHost[s] = "complete") ~> loadResolved[s]

\* C35: no tab is closed while the scraper launched on it is running:
\* chrome.tabs.remove is called for a tab only when the task of its source
\* was never launched or has settled.
C35_NoTabClosedUnderRunningTask ==
    \A s \in Source :
        closeCalls[s] > 0 => task[s] \in Settled \cup {"notLaunched"}

\* C36: when run has returned a Report, storage holds that Report under the
\* key of its identifier, whichever path returned it; a getStoredResults sent
\* after that reads it back.
C36_ReturnedReportIsStored ==
    runState = "resolved"
        => StorageGet(storage, StorageKey(returned[1].ip)) = returned

\* C7 (as claimed): when creating the tab of one source fails, the other
\* sources' tabs are still created and their tasks run and are recorded,
\* exactly one soft-error is recorded and every created tab is closed.
C7_CreationFailureIsolated ==
    (runState = "resolved" /\ \E c \in Source : CreationFailed(c))
    => LET r == returned[1] IN
       /\ \A s \in Source :
             ~CreationFailed(s) => createCalls[s] = 1 /\ tabs[s] /\ Recorded(s, r)
       /\ Len(r.errors) = 1
       /\ \A s \in Source : tabs[s] => closeCalls[s] = 1

\* C8 (as claimed): when a launched task has rejected or returned a failure,
\* every other launched task has run to completion and its result was
\* recorded in the Report before run returned.
C8_TaskFailureIsolated ==
    runState = "resolved"
    => \A s \in Source :
          TaskFailed(s)
          => \A u \in Source \ {s} :
                task[u] # "notLaunched" => Recorded(u, returned[1])

\* C8, on the runs in which no scraper call throws: there the statement holds
\* (Promise.all over promises that each carry .then/.catch).
C8_IsolatedWhenNoCallThrows == threw = "none" => C8_TaskFailureIsolated

\* C9 (as claimed): once run has returned the Report, the Report object is
\* never written again.
C9_ReportImmutable == [][runState = "resolved" => results' = results]_vars

\* The identifiers of IpInputs that are missing or malformed.
Malformed == {<<>>, Ip_999, Ip_not_an_ip, Ip_256_1_1_1, Ip_1_1_1, Ip_1_1_1_1_dot}

\* C10: a collect message with a missing or malformed identifier is answered
\* within the listener with success = false, and the step creates no tab and
\* starts no run.
C10_MalformedRejectedBeforeCreate ==
    [][(/\ handled' = handled + 1
        /\ request'.action = "collectOSINT"
        /\ request'.ipAddress \in Malformed)
       => /\ response'.kind = "error" /\ response'.success = FALSE
          /\ createCalls' = createCalls
          /\ tabs' = tabs
          /\ runState' = runState
          /\ pc' = pc]_vars

\* C10 witness: the listener has answered collect 999.999.999.999 with an
\* error and no chrome.tabs.create call has been made.
C10_Witness ==
    /\ request = [action |-> "collectOSINT", ipAddress |-> Ip_999]
    /\ response.kind = "error"
    /\ \A s \in Source : createCalls[s] = 0

(***************************************************************************)
(* Identifier validation on its own: SpecIp builds identifiers out of      *)
(* dot-separated pieces and puts each to ipRegex.test.                     *)
(***************************************************************************)
\* The pieces an identifier is built from: empty, one to four digits, with
\* and without leading zeros, the largest value of each alternative of the
\* octet pattern (199, 249, 255) and the first value beyond (256).
ProbePieces ==
    {<<>>, <<"0">>, <<"0", "1">>, <<"1", "9", "9">>, <<"2", "4", "9">>,
     <<"2", "5", "5">>, <<"2", "5", "6">>, <<"0", "0", "0", "1">>}

\* One more piece is written after the identifier so far.
ProbeAppend(p) ==
    /\ verdict = "none"
    /\ probeParts < MaxParts
    /\ probe' = IF probeParts = 0 THEN p ELSE probe \o <<".">> \o p
    /\ probeParts' = probeParts + 1
    /\ UNCHANGED <<verdict, orchVars, cdpVars, opVars>>

\* if (!ipRegex.test(ipAddress)) ... : the identifier is put to the regex.
ProbeValidate ==
    /\ verdict = "none"
    /\ probeParts > 0
    /\ verdict' = IF ipRegexTest(probe) THEN "accept" ELSE "reject"
    /\ UNCHANGED <<probe, probeParts, orchVars, cdpVars, opVars>>

NextIp == (\E p \in ProbePieces : ProbeAppend(p)) \/ ProbeValidate

SpecIp == Init /\ [][NextIp]_vars

\* Reference validator: the value of a digit, and of a string of digits.
DigitValue(c) == CHOOSE n \in 0..9 : <<"0", "1", "2", "3", "4", "5", "6", "7", "8", "9">>[n + 1] = c

RECURSIVE DecimalValue(_)
DecimalValue(p) ==
    IF p = <<>> THEN 0
    ELSE 10 * DecimalValue(SubSeq(p, 1, Len(p) - 1)) + DigitValue(p[Len(p)])

\* An octet as xxx: one to three decimal digits whose value is 0..255.
RefOctet(p) ==
    /\ Len(p) \in 1..3
    /\ \A i \in 1..Len(p) : p[i] \in Digits
    /\ DecimalValue(p) <= 255

\* The pieces of s between its dots, left to right.
RECURSIVE SplitDots(_)
SplitDots(s) ==
    IF \A i \in 1..Len(s) : s[i] # "." THEN <<s>>
    ELSE LET d == CHOOSE i \in 1..Len(s) : s[i] = "." /\ \A j \in 1..(i - 1) : s[j] # "."
         IN <<SubSeq(s, 1, d - 1)>> \o SplitDots(SubSeq(s, d + 1, Len(s)))

RefValid(s) ==
    /\ Len(SplitDots(s)) = 4
    /\ \A i \in 1..4 : RefOctet(SplitDots(s)[i])

\* C11: ipRegex accepts exactly the identifiers made of four dot-separated
\* octets, each one to three decimal digits with a value in 0..255 (01.1.1.1
\* is accepted, 256.1.1.1 and 0001.1.1.1 are rejected), and rejects every
\* other string.
C11_RegexMatchesReference ==
    verdict # "none" => (verdict = "accept" <=> RefValid(probe))

\* C11 witness: an identifier with a leading-zero octet and the octet 255 has
\* been accepted.
C11_Witness ==
    /\ verdict = "accept"
    /\ SplitDots(probe)[1] = <<"0", "1">>
    /\ SplitDots(probe)[2] = <<"2", "5", "5">>

\* C11 witness of the other verdict: 256 as an octet has been rejected.
C11_RejectWitness ==
    /\ verdict = "reject"
    /\ probeParts = 4
    /\ SplitDots(probe)[4] = <<"2", "5", "6">>
    /\ \A i \in 1..3 : RefOctet(SplitDots(probe)[i])


(***************************************************************************)
(* Reading a stored report.                                                *)
(***************************************************************************)

\* A step of the getStoredResults branch: the listener taking such a message,
\* or the callback of its chrome.storage.local.get.
GetStoredStep ==
    \/ handled' = handled + 1 /\ request'.action = "getStoredResults"
    \/ getPending # <<>> /\ getPending' = <<>>

\* C12: a getStoredResults message only reads persisted state: its steps
\* create no tab, attach no session and launch no task, and write nothing to
\* storage; nothing of a collection changes.
C12_GetStoredOnlyReads == [][GetStoredStep => UNCHANGED runVars]_vars

\* A stored report was read back after the collection that wrote it.
C12_Witness ==
    /\ request.action = "getStoredResults"
    /\ response.kind = "data"
    /\ response.data # <<>>
    /\ response.data = StorageGet(storage, StorageKey(request.ipAddress))


(***************************************************************************)
(* Protocol sessions (src/src/modules/cdp/core.ts, CDPContext).            *)
(*                                                                         *)
(* SpecCdp runs two sessions, one per tab, against a host that attaches a  *)
(* debugger to a tab at most once at a time, may refuse an attach, may     *)
(* drop a debugger on its own (the tab went away, the user cancelled       *)
(* debugging) and emits events for the tabs it has a debugger on.  Callers *)
(* may call attach, detach, sendCommand, on and off in any order and       *)
(* before earlier calls were answered.                                     *)
(***************************************************************************)

Turn(op, s, name, result) ==
    [NoTurn EXCEPT !.op = op, !.s = s, !.name = name, !.result = result]

\* handlers.indexOf(handler): the first position holding it, 0 for -1.
IndexOf(arr, h) ==
    IF \E i \in 1..Len(arr) : arr[i] = h
    THEN CHOOSE i \in 1..Len(arr) :
             arr[i] = h /\ \A j \in 1..(i - 1) : arr[j] # h
    ELSE 0

\* handlers.splice(index, 1)
Splice(arr, i) ==
    [j \in 1..(Len(arr) - 1) |-> IF j < i THEN arr[j] ELSE arr[j + 1]]

\* An off that removes nothing.
ListenersOff_KeepsAll(tbl, e, h) == tbl

\* What on(eventName, handler) makes of a listener table.
ListenersOn(tbl, e, h) == [tbl EXCEPT ![e] = Append(@, h)]

\* What off(eventName, handler) makes of a listener table.
ListenersOff(tbl, e, h) ==
    LET index == IndexOf(tbl[e], h)
    IN  IF index > 0 THEN [tbl EXCEPT ![e] = Splice(@, index)] ELSE tbl

\* attach(): nothing to do when attached, else chrome.debugger.attach.
SessionAttach(s) ==
    /\ calls < MaxCalls
    /\ calls' = calls + 1
    /\ IF attached[s]
       THEN /\ last' = Turn("attach", s, "none", "resolved")
            /\ UNCHANGED attachCalls
       ELSE /\ attachCalls' = [attachCalls EXCEPT ![s] = @ + 1]
            /\ last' = Turn("attach", s, "none", "pending")
    /\ UNCHANGED <<attached, eventListeners, listenerSet, hostSubs,
                   hostAttached, detachCalls, commandCalls>>

\* attach() of a caller that does nothing else in the turn.
attach(s) == SessionAttach(s) /\ UNCHANGED <<nonCdpVars, pageVars>>

\* _setupEventListeners(): a new listener is subscribed and kept in _listener.
setupEventListeners(s) ==
    /\ hostSubs' = [hostSubs EXCEPT ![s] = @ + 1]
    /\ listenerSet' = [listenerSet EXCEPT ![s] = TRUE]

\* _removeEventListeners(): the listener in _listener is unsubscribed, the
\* listener table cleared.
removeEventListeners(s) ==
    /\ hostSubs' = [hostSubs EXCEPT ![s] = IF listenerSet[s] THEN @ - 1 ELSE @]
    /\ listenerSet' = [listenerSet EXCEPT ![s] = FALSE]
    /\ eventListeners' = [eventListeners EXCEPT ![s] = NoListeners]

\* A callback that takes the session for attached whatever the host said.
SessionAttached_IgnoresLastError(s, ok) ==
    /\ attachCalls[s] > 0
    /\ ok => ~hostAttached[s]
    /\ attachCalls' = [attachCalls EXCEPT ![s] = @ - 1]
    /\ hostAttached' = [hostAttached EXCEPT ![s] = @ \/ ok]
    /\ attached' = [attached EXCEPT ![s] = TRUE]
    /\ setupEventListeners(s)
    /\ last' = Turn("attachCallback", s, "none",
                    IF ok THEN "resolved" ELSE "rejected")
    /\ UNCHANGED <<eventListeners, detachCalls, commandCalls, calls>>

\* Callback of chrome.debugger.attach.  The host attaches only to a tab it has
\* no debugger on, and may refuse in any case.
SessionAttached(s, ok) ==
    /\ attachCalls[s] > 0
    /\ ok => ~hostAttached[s]
    /\ attachCalls' = [attachCalls EXCEPT ![s] = @ - 1]
    /\ IF ok
       THEN /\ hostAttached' = [hostAttached EXCEPT ![s] = TRUE]
            /\ attached' = [attached EXCEPT ![s] = TRUE]
            /\ setupEventListeners(s)
            /\ last' = Turn("attachCallback", s, "none", "resolved")
       ELSE /\ last' = Turn("attachCallback", s, "none", "rejected")
            /\ UNCHANGED <<hostAttached, attached, hostSubs, listenerSet>>
    /\ UNCHANGED <<eventListeners, detachCalls, commandCalls, calls>>

\* The callback when the caller of attach() does nothing else in the turn.
OnAttached(s, ok) ==
    SessionAttached(s, ok) /\ UNCHANGED <<nonCdpVars, pageVars>>

\* detach(): nothing to do when not attached, else chrome.debugger.detach.
SessionDetach(s) ==
    /\ calls < MaxCalls
    /\ calls' = calls + 1
    /\ IF ~attached[s]
       THEN /\ last' = Turn("detach", s, "none", "resolved")
            /\ UNCHANGED detachCalls
       ELSE /\ detachCalls' = [detachCalls EXCEPT ![s] = @ + 1]
            /\ last' = Turn("detach", s, "none", "pending")
    /\ UNCHANGED <<attached, eventListeners, listenerSet, hostSubs,
                   hostAttached, attachCalls, commandCalls>>

\* detach() of a caller that does nothing else in the turn.
detach(s) == SessionDetach(s) /\ UNCHANGED <<nonCdpVars, pageVars>>

\* Callback of chrome.debugger.detach.  The host reports an error when it has
\* no debugger on the tab.
SessionDetached(s) ==
    /\ detachCalls[s] > 0
    /\ detachCalls' = [detachCalls EXCEPT ![s] = @ - 1]
    /\ IF hostAttached[s]
       THEN /\ hostAttached' = [hostAttached EXCEPT ![s] = FALSE]
            /\ attached' = [attached EXCEPT ![s] = FALSE]
            /\ removeEventListeners(s)
            /\ last' = Turn("detachCallback", s, "none", "resolved")
       ELSE /\ last' = Turn("detachCallback", s, "none", "rejected")
            /\ UNCHANGED <<hostAttached, attached, hostSubs, listenerSet,
                           eventListeners>>
    /\ UNCHANGED <<attachCalls, commandCalls, calls>>

\* The callback when the caller of detach() does nothing else in the turn.
OnDetached(s) == SessionDetached(s) /\ UNCHANGED <<nonCdpVars, pageVars>>

\* The host drops its debugger on a tab without being asked.
HostDetaches(s) ==
    /\ hostAttached[s]
    /\ hostAttached' = [hostAttached EXCEPT ![s] = FALSE]
    /\ last' = Turn("hostDetach", s, "none", "none")
    /\ UNCHANGED <<attached, eventListeners, listenerSet, hostSubs,
                   attachCalls, detachCalls, commandCalls, calls>>
    /\ UNCHANGED <<nonCdpVars, pageVars>>

\* sendCommand() of a caller other than goto: throws when not attached, else
\* chrome.debugger.sendCommand.
sendCommand_Unguarded(s) ==
    /\ calls < MaxCalls
    /\ calls' = calls + 1
    /\ commandCalls' = [commandCalls EXCEPT ![s] = @ + 1]
    /\ last' = Turn("sendCommand", s, "none", "pending")
    /\ UNCHANGED <<attached, eventListeners, listenerSet, hostSubs,
                   hostAttached, attachCalls, detachCalls>>
    /\ UNCHANGED <<nonCdpVars, pageVars>>

sendCommand(s) ==
    /\ calls < MaxCalls
    /\ calls' = calls + 1
    /\ IF ~attached[s]
       THEN /\ last' = Turn("sendCommand", s, "none", "notAttached")
            /\ UNCHANGED commandCalls
       ELSE /\ commandCalls' = [commandCalls EXCEPT ![s] = @ + 1]
            /\ last' = Turn("sendCommand", s, "none", "pending")
    /\ UNCHANGED <<attached, eventListeners, listenerSet, hostSubs,
                   hostAttached, attachCalls, detachCalls>>
    /\ UNCHANGED <<nonCdpVars, pageVars>>

\* Commands of goto that the host has not answered.
GotoCommands(s) == IF nav[s].pc \in {"enable", "navigate"} THEN 1 ELSE 0

\* Commands of an operation of the page that are unanswered at its position.
Pending(o) ==
    IF o.pc \in {"enable", "poll", "enable2", "read", "press", "release",
                 "key"}
    THEN 1 ELSE 0

\* Commands of the operation in progress that the host has not answered.
OpCommands(s) ==
    IF s = NavSession
    THEN Pending(po) + (IF ni.pc = "enable" THEN 1 ELSE 0)
    ELSE 0

\* Callback of chrome.debugger.sendCommand for a caller other than goto and the
\* operations of the page.  The
\* host answers with a result only for a tab it has a debugger on.
OnCommandResult(s, ok) ==
    /\ commandCalls[s] > GotoCommands(s) + OpCommands(s)
    /\ ok => hostAttached[s]
    /\ commandCalls' = [commandCalls EXCEPT ![s] = @ - 1]
    /\ last' = Turn("commandCallback", s, "none",
                    IF ok THEN "resolved" ELSE "rejected")
    /\ UNCHANGED <<attached, eventListeners, listenerSet, hostSubs,
                   hostAttached, attachCalls, detachCalls, calls>>
    /\ UNCHANGED <<nonCdpVars, pageVars>>

\* on(eventName, handler) of a caller other than goto.
on(s, e, h) ==
    /\ calls < MaxCalls
    /\ calls' = calls + 1
    /\ eventListeners' = [eventListeners EXCEPT ![s] = ListenersOn(@, e, h)]
    /\ last' = Turn("on", s, e, "none")
    /\ UNCHANGED <<attached, listenerSet, hostSubs, hostAttached, attachCalls,
                   detachCalls, commandCalls>>
    /\ UNCHANGED <<nonCdpVars, pageVars>>

\* off(eventName, handler) of a caller other than goto and the handlers.
off(s, e, h) ==
    /\ calls < MaxCalls
    /\ calls' = calls + 1
    /\ eventListeners' = [eventListeners EXCEPT ![s] = ListenersOff(@, e, h)]
    /\ last' = Turn("off", s, e, "none")
    /\ UNCHANGED <<attached, listenerSet, hostSubs, hostAttached, attachCalls,
                   detachCalls, commandCalls>>
    /\ UNCHANGED <<nonCdpVars, pageVars>>


(***************************************************************************)
(* Event dispatch and Page.goto                                            *)
(***************************************************************************)
LoadEvent == "Page.loadEventFired"

FrameEvent == "Page.frameStoppedLoading"

\* What an event may carry: a frameStoppedLoading event has a frameId or
\* not, a loadEventFired event has none.
Params(e) == IF e = FrameEvent THEN {"frameId", "none"} ELSE {"none"}

\* A branch that resolves and leaves both handlers registered.
GotoSettle_KeepsHandlers(st) ==
    [st EXCEPT !.nv = [@ EXCEPT !.resolved = TRUE, !.timer = FALSE,
                                !.pc = "done", !.resolves = @ + 1]]

GotoSettle_KeepsTimer(st) ==
    [tbl |-> ListenersOff(ListenersOff(st.tbl, LoadEvent, "onLoad"),
                          FrameEvent, "onFrameLoad"),
     nv  |-> [st.nv EXCEPT !.resolved = TRUE, !.pc = "done",
                           !.resolves = @ + 1]]

\* A branch of goto wins: resolved = true, the timer cleared, both handlers
\* unregistered, resolve().  st is [tbl, nv]: the session's listener table
\* and its page's goto state.
GotoSettle(st) ==
    [tbl |-> ListenersOff(ListenersOff(st.tbl, LoadEvent, "onLoad"),
                          FrameEvent, "onFrameLoad"),
     nv  |-> [st.nv EXCEPT !.resolved = TRUE, !.timer = FALSE, !.pc = "done",
                           !.resolves = @ + 1]]

\* handler(params) for the handlers of the model.
CallHandler(h, e, params, st) ==
    CASE h = "hOnce" -> [st EXCEPT !.tbl = ListenersOff(@, e, "hOnce")]
      [] h = "hDrop" -> [st EXCEPT !.tbl = ListenersOff(@, e, "hLog")]
      [] h = "onLoad" ->
             IF ~st.nv.resolved
             THEN GotoSettle([st EXCEPT !.nv.by = "event"]) ELSE st
      [] h = "onFrameLoad" ->
             IF ~st.nv.resolved /\ params = "frameId"
             THEN GotoSettle([st EXCEPT !.nv.by = "event"]) ELSE st
      [] OTHER -> st

\* handlers.forEach(handler => handler(params)) seen from index k on: the
\* length is read once, the array is read at each index, and off() splices
\* the same array.  log collects the handlers invoked.
RECURSIVE ForEach_OverCopy(_, _, _, _, _, _, _)
ForEach_OverCopy(copy, e, params, k, len, st, log) ==
    IF k > len
    THEN [st |-> st, log |-> log]
    ELSE ForEach_OverCopy(copy, e, params, k + 1, len,
                          CallHandler(copy[k], e, params, st),
                          Append(log, copy[k]))

RECURSIVE forEach(_, _, _, _, _, _, _)
forEach(handlers, e, params, k, len, st, log) ==
    IF k > len
    THEN [st |-> st, log |-> log]
    ELSE IF k > Len(st.tbl[e])
    THEN forEach(handlers, e, params, k + 1, len, st, log)
    ELSE forEach(handlers, e, params, k + 1, len,
                 CallHandler(st.tbl[e][k], e, params, st),
                 Append(log, st.tbl[e][k]))

\* The listener of session s given an event of tab `source`.
listener_Unfiltered(s, source, e, params, st, log) ==
    forEach(st.tbl[e], e, params, 1, Len(st.tbl[e]), st, log)

listener(s, source, e, params, st, log) ==
    IF source = s
    THEN forEach(st.tbl[e], e, params, 1, Len(st.tbl[e]), st, log)
    ELSE [st |-> st, log |-> log]

\* chrome.debugger.onEvent calls each subscribed listener; session s has n
\* more of them to go.
RECURSIVE RunListeners(_, _, _, _, _, _, _)
RunListeners(n, s, source, e, params, st, log) ==
    IF n = 0
    THEN [st |-> st, log |-> log]
    ELSE LET r == listener(s, source, e, params, st, log)
         IN  RunListeners(n - 1, s, source, e, params, r.st, r.log)

\* What the event makes of each session.
Dispatched(source, e, params) ==
    [s \in Session |->
        RunListeners(hostSubs[s], s, source, e, params,
                     [tbl |-> eventListeners[s], nv |-> nav[s]], <<>>)]

\* The host emits an event of a tab it has a debugger on.
HostEvent(source, e, params) ==
    /\ hostAttached[source]
    /\ LET d == Dispatched(source, e, params)
       IN  /\ eventListeners' = [s \in Session |-> d[s].st.tbl]
           /\ nav' = [s \in Session |-> d[s].st.nv]
           /\ last' = [Turn("event", source, e, "none")
                          EXCEPT !.params = params,
                                 !.before = eventListeners[source][e],
                                 !.invoked = [s \in Session |-> d[s].log]]
    /\ UNCHANGED <<attached, listenerSet, hostSubs, hostAttached, attachCalls,
                   detachCalls, commandCalls, calls, clock>>
    /\ UNCHANGED nonCdpVars

\* goto(url) up to its first suspension: sendCommand('Page', 'enable') throws
\* when the session is not attached.
goto(s) ==
    /\ calls < MaxCalls
    /\ calls' = calls + 1
    /\ nav[s].pc \in {"idle", "done", "failed"}
    /\ IF ~attached[s]
       THEN /\ nav' = [nav EXCEPT ![s] = [NavIdle EXCEPT !.pc = "failed"]]
            /\ last' = Turn("goto", s, "none", "notAttached")
            /\ UNCHANGED commandCalls
       ELSE /\ nav' = [nav EXCEPT ![s] = [NavIdle EXCEPT !.pc = "enable"]]
            /\ commandCalls' = [commandCalls EXCEPT ![s] = @ + 1]
            /\ last' = Turn("goto", s, "none", "pending")
    /\ UNCHANGED <<attached, eventListeners, listenerSet, hostSubs,
                   hostAttached, attachCalls, detachCalls, clock>>
    /\ UNCHANGED nonCdpVars

\* Callback of the Page.enable command, and goto up to its next suspension:
\* sendCommand('Page', 'navigate') throws when the session is not attached
\* any more.
OnEnableResult(s, ok) ==
    /\ nav[s].pc = "enable"
    /\ ok => hostAttached[s]
    /\ IF ok /\ attached[s]
       THEN /\ nav' = [nav EXCEPT ![s].pc = "navigate"]
            /\ last' = Turn("enableCallback", s, "none", "pending")
            /\ UNCHANGED commandCalls
       ELSE /\ nav' = [nav EXCEPT ![s].pc = "failed"]
            /\ commandCalls' = [commandCalls EXCEPT ![s] = @ - 1]
            /\ last' = Turn("enableCallback", s, "none",
                            IF ok THEN "notAttached" ELSE "rejected")
    /\ UNCHANGED <<attached, eventListeners, listenerSet, hostSubs,
                   hostAttached, attachCalls, detachCalls, calls, clock>>
    /\ UNCHANGED nonCdpVars

\* Callback of the Page.navigate command, and the executor of goto's promise:
\* the fallback timer is set, then both handlers are registered.
OnNavigateResult_NoTimer(s, ok) ==
    /\ nav[s].pc = "navigate"
    /\ ok => hostAttached[s]
    /\ commandCalls' = [commandCalls EXCEPT ![s] = @ - 1]
    /\ IF ok
       THEN /\ nav' = [nav EXCEPT ![s].pc = "wait", ![s].armedAt = clock]
            /\ eventListeners' =
                   [eventListeners EXCEPT ![s] =
                       ListenersOn(ListenersOn(@, LoadEvent, "onLoad"),
                                   FrameEvent, "onFrameLoad")]
            /\ last' = Turn("navigateCallback", s, "none", "pending")
       ELSE /\ nav' = [nav EXCEPT ![s].pc = "failed"]
            /\ last' = Turn("navigateCallback", s, "none", "rejected")
            /\ UNCHANGED eventListeners
    /\ UNCHANGED <<attached, listenerSet, hostSubs, hostAttached, attachCalls,
                   detachCalls, calls, clock>>
    /\ UNCHANGED nonCdpVars

OnNavigateResult(s, ok) ==
    /\ nav[s].pc = "navigate"
    /\ ok => hostAttached[s]
    /\ commandCalls' = [commandCalls EXCEPT ![s] = @ - 1]
    /\ IF ok
       THEN /\ nav' = [nav EXCEPT ![s].pc = "wait", ![s].timer = TRUE,
                                  ![s].armedAt = clock]
            /\ eventListeners' =
                   [eventListeners EXCEPT ![s] =
                       ListenersOn(ListenersOn(@, LoadEvent, "onLoad"),
                                   FrameEvent, "onFrameLoad")]
            /\ last' = Turn("navigateCallback", s, "none", "pending")
       ELSE /\ nav' = [nav EXCEPT ![s].pc = "failed"]
            /\ last' = Turn("navigateCallback", s, "none", "rejected")
            /\ UNCHANGED eventListeners
    /\ UNCHANGED <<attached, listenerSet, hostSubs, hostAttached, attachCalls,
                   detachCalls, calls, clock>>
    /\ UNCHANGED nonCdpVars

\* The callback of the fallback timer, once the delay has passed.
FallbackFires(s) ==
    /\ nav[s].timer
    /\ clock >= nav[s].armedAt + FallbackDelay
    /\ LET st == [tbl |-> eventListeners[s],
                  nv  |-> [nav[s] EXCEPT !.timer = FALSE]]
           r  == IF ~nav[s].resolved
                 THEN GotoSettle([st EXCEPT !.nv.by = "timer"]) ELSE st
       IN  /\ eventListeners' = [eventListeners EXCEPT ![s] = r.tbl]
           /\ nav' = [nav EXCEPT ![s] = r.nv]
    /\ last' = Turn("fallbackTimer", s, "none", "none")
    /\ UNCHANGED <<attached, listenerSet, hostSubs, hostAttached, attachCalls,
                   detachCalls, commandCalls, calls, clock>>
    /\ UNCHANGED nonCdpVars

\* A time unit passes while a goto waits; a due timer callback is run within
\* Slack.
Tick ==
    /\ clock < MaxClock
    /\ \E s \in Session : nav[s].pc = "wait"
    /\ \A s \in Session :
           nav[s].timer => clock < nav[s].armedAt + FallbackDelay + Slack
    /\ clock' = clock + 1
    /\ last' = Turn("tick", 0, "none", "none")
    /\ UNCHANGED <<sessVarsButLast, nav>>
    /\ UNCHANGED nonCdpVars


(***************************************************************************)
(* Specifications of the sessions and of the pages                         *)
(***************************************************************************)
\* What callers of the sessions do.
SessionCall ==
    \E s \in Session :
        \/ attach(s)
        \/ detach(s)
        \/ sendCommand(s)
        \/ \E e \in EventName, h \in CallerHandler : on(s, e, h)
        \/ \E e \in EventName, h \in CallerHandler : off(s, e, h)

\* What the host does.
HostStep ==
    \E s \in Session :
        \/ \E ok \in BOOLEAN : OnAttached(s, ok)
        \/ OnDetached(s)
        \/ HostDetaches(s)
        \/ \E ok \in BOOLEAN : OnCommandResult(s, ok)
        \/ \E e \in EventName : \E params \in Params(e) : HostEvent(s, e, params)

NextCdp == SessionCall \/ HostStep

SpecCdp == Init /\ [][NextCdp]_vars

\* What the caller of the page does: it attaches, navigates, may register a
\* handler of its own and detaches.
PageCall ==
    \/ attach(NavSession)
    \/ goto(NavSession)
    \/ sendCommand(NavSession)
    \/ detach(NavSession)
    \/ \E e \in EventName, h \in CallerHandler : on(NavSession, e, h)

\* What the host and the timers do to the page.
PageStep ==
    \/ \E ok \in BOOLEAN : OnAttached(NavSession, ok)
    \/ \E ok \in BOOLEAN : OnEnableResult(NavSession, ok)
    \/ \E ok \in BOOLEAN : OnNavigateResult(NavSession, ok)
    \/ \E ok \in BOOLEAN : OnCommandResult(NavSession, ok)
    \/ OnDetached(NavSession)
    \/ HostDetaches(NavSession)
    \/ \E e \in EventName : \E params \in Params(e) :
           HostEvent(NavSession, e, params)
    \/ FallbackFires(NavSession)
    \/ Tick

NextNav == PageCall \/ PageStep

SpecNav == Init /\ [][NextNav]_vars


(***************************************************************************)
(* Claims about the sessions                                               *)
(***************************************************************************)

\* A step in which session s hands a command to chrome.debugger.sendCommand.
HostCommandSent(s) ==
    \/ commandCalls'[s] > commandCalls[s]
    \/ nav[s].pc = "enable" /\ nav'[s].pc = "navigate"

\* C13: a session hands a command to the host only while its attached flag
\* is set, also while a detach is pending, after it completed and while goto
\* is between its commands; sendCommand on a session that is not attached
\* fails with the not-attached error and the host is not called.
C13_CommandsOnlyWhileAttached ==
    [][\A s \in Session :
          /\ HostCommandSent(s) => attached[s]
          /\ (last'.op = "sendCommand" /\ last'.s = s /\ ~attached[s])
                 => /\ last'.result = "notAttached"
                    /\ commandCalls'[s] = commandCalls[s]]_vars

\* sendCommand was refused on a session that was detached while its page's
\* goto waits for the load.
C13_Witness ==
    /\ last.op = "sendCommand"
    /\ last.result = "notAttached"
    /\ ~attached[NavSession]
    /\ nav[NavSession].pc = "wait"
    /\ commandCalls[NavSession] = 0

\* C14: however many attach calls were made on a session, one after the
\* other or before the callbacks of earlier ones ran, an attached session
\* has exactly one listener subscribed at the host.
C14_AttachIdempotent ==
    \A s \in Session : attached[s] => hostSubs[s] = 1

\* C15: when the callback of a detach call has run, the session is not
\* attached, has no listener subscribed at the host and an empty listener
\* table; a detach call on a session that is not attached calls nothing and
\* resolves.
C15_DetachIdempotent ==
    [][\A s \in Session :
          /\ detachCalls'[s] < detachCalls[s]
                 => /\ ~attached'[s]
                    /\ hostSubs'[s] = 0
                    /\ eventListeners'[s] = NoListeners
          /\ (last'.op = "detach" /\ last'.s = s /\ ~attached[s])
                 => /\ detachCalls'[s] = detachCalls[s]
                    /\ last'.result = "resolved"]_vars

\* The handler a caller's handler calls off for when invoked.
OffTarget(h) ==
    CASE h = "hOnce" -> "hOnce"
      [] h = "hDrop" -> "hLog"
      [] OTHER -> "none"

\* The first of the registrations `alive` of snap that holds handler h, 0 if
\* there is none.
FirstAlive(snap, alive, h) ==
    IF \E i \in alive : snap[i] = h
    THEN CHOOSE i \in alive : snap[i] = h /\ \A j \in alive : snap[j] = h => i <= j
    ELSE 0

\* The handlers to invoke for the registrations snap[k..], in registration
\* order, each once, leaving out those removed before their turn.
RECURSIVE RefInvoked(_, _, _)
RefInvoked(snap, k, alive) ==
    IF k > Len(snap)
    THEN <<>>
    ELSE IF k \notin alive
    THEN RefInvoked(snap, k + 1, alive)
    ELSE <<snap[k]>> \o
         RefInvoked(snap, k + 1,
                    alive \ {FirstAlive(snap, alive, OffTarget(snap[k]))})

\* C16: an event dispatched to a session invokes every handler registered
\* under its name when it arrived exactly once and in registration order,
\* except the handlers removed by a handler invoked before them.
C16_AllHandlersOnceInOrder ==
    (last.op = "event" /\ hostSubs[last.s] = 1)
        => last.invoked[last.s] =
               RefInvoked(last.before, 1, 1..Len(last.before))

\* The handlers log[i..] were each in the listener table when invoked.
RECURSIVE FiredWhileRegistered(_, _, _, _, _)
FiredWhileRegistered(log, i, e, params, st) ==
    \/ i > Len(log)
    \/ /\ IndexOf(st.tbl[e], log[i]) > 0
       /\ FiredWhileRegistered(log, i + 1, e, params,
                               CallHandler(log[i], e, params, st))

C18_NoCrossDelivery ==
    [][last'.op = "event"
          => \A s \in Session \ {last'.s} :
                 /\ last'.invoked[s] = <<>>
                 /\ eventListeners'[s] = eventListeners[s]]_vars

\* Both sessions attached with a handler under the same name; the event of
\* one tab invoked the handler of its session.
C18_Witness ==
    /\ last.op = "event"
    /\ \A s \in Session :
           /\ attached[s] /\ hostSubs[s] = 1
           /\ eventListeners[s][last.name] # <<>>
    /\ last.invoked[last.s] # <<>>


\* C39: when the host refuses an attach, the callback rejects and leaves the
\* session as it was: the attached flag, the subscription to host events and
\* the listener table are unchanged, and the host has no debugger more than
\* before; a sendCommand that follows on a session left unattached throws
\* 'not attached' and hands nothing to the host.
C39_RefusedAttachChangesNothing ==
    [][\A s \in Session :
          /\ (last'.op = "attachCallback" /\ last'.s = s
                  /\ last'.result = "rejected")
                 => /\ attached'[s] = attached[s]
                    /\ listenerSet'[s] = listenerSet[s]
                    /\ hostSubs'[s] = hostSubs[s]
                    /\ eventListeners'[s] = eventListeners[s]
                    /\ hostAttached'[s] = hostAttached[s]
                    /\ commandCalls'[s] = commandCalls[s]
          /\ (last.op = "attachCallback" /\ last.s = s
                  /\ last.result = "rejected" /\ ~attached[s]
                  /\ last'.op = "sendCommand" /\ last'.s = s)
                 => /\ last'.result = "notAttached"
                    /\ commandCalls'[s] = commandCalls[s]
                    /\ ~attached'[s]]_vars

\* The host refused the attach of a session that was not attached and had a
\* handler registered: the session is not attached, has no subscription, and
\* its listener table still holds the handler.
C39_Witness ==
    \E s \in Session :
        /\ last.op = "attachCallback" /\ last.s = s
        /\ last.result = "rejected"
        /\ ~attached[s] /\ ~listenerSet[s] /\ hostSubs[s] = 0
        /\ ~hostAttached[s]
        /\ eventListeners[s] # NoListeners


(***************************************************************************)
(* Claims about Page.goto                                                  *)
(***************************************************************************)

\* goto's handlers are in no listener of session s.
GotoHandlersGone(s) ==
    /\ IndexOf(eventListeners[s][LoadEvent], "onLoad") = 0
    /\ IndexOf(eventListeners[s][FrameEvent], "onFrameLoad") = 0

\* C19: a goto is resolved at most once; when it is resolved, by the load
\* event, the frame event or the fallback timer, its timer is no longer
\* pending and both its handlers are unregistered; an event or timer arriving
\* after that leaves the resolved goto as it is.
C19_GotoResolvesOnce ==
    [][\A s \in Session :
          /\ nav'[s].resolves <= 1
          /\ nav'[s].pc = "done"
                 => /\ nav'[s].resolves = 1
                    /\ nav'[s].resolved
                    /\ ~nav'[s].timer
                    /\ GotoHandlersGone(s)'
          /\ (nav[s].pc = "done" /\ last'.op \in {"event", "fallbackTimer"})
                 => nav'[s] = nav[s]]_vars

\* The load event resolved the goto before the fallback delay had passed and
\* cancelled the timer.
C19_Witness ==
    /\ last.op = "event" /\ last.name = LoadEvent
    /\ last.invoked[NavSession] = <<"onLoad">>
    /\ nav[NavSession].pc = "done"
    /\ nav[NavSession].resolves = 1
    /\ ~nav[NavSession].timer
    /\ clock < nav[NavSession].armedAt + FallbackDelay
    /\ GotoHandlersGone(NavSession)

\* C20: a goto that waits for the load is resolved at the latest when the
\* fallback delay and the slack of the timer have passed since it began to
\* wait, whatever events arrive or fail to arrive.
C20_GotoResolvesWithinFallback ==
    \A s \in Session :
        nav[s].pc = "wait" => clock <= nav[s].armedAt + FallbackDelay + Slack

\* The fallback timer resolved a goto that no event had resolved.
C20_Witness ==
    /\ last.op = "fallbackTimer"
    /\ nav[NavSession].pc = "done"
    /\ nav[NavSession].resolves = 1
    /\ clock >= nav[NavSession].armedAt + FallbackDelay
    /\ attached[NavSession] /\ hostAttached[NavSession]

\* A load event arrived while goto awaited the reply to Page.navigate, before
\* its handlers were registered.
C20_EventBeforeHandlers ==
    /\ last.op = "event" /\ last.name = LoadEvent
    /\ last.before = <<>>
    /\ nav[NavSession].pc = "navigate"


\* C33: a load or frame event that arrives after the fallback timer has
\* resolved the goto of its session is a no-op for that goto: no handler of
\* goto is invoked, the goto stays as it was (nothing is resolved again), and
\* the session keeps its state; its listener table changes only through a
\* handler of the caller that unregisters something.
C33_LateLoadEventIsNoOp ==
    [][\A s \in Session :
          (/\ nav[s].pc = "done" /\ nav[s].by = "timer"
           /\ last'.op = "event" /\ last'.s = s)
          => /\ \A i \in 1..Len(last'.invoked[s]) :
                    last'.invoked[s][i] \notin GotoHandler
             /\ nav'[s] = nav[s]
             /\ attached'[s] = attached[s]
             /\ listenerSet'[s] = listenerSet[s]
             /\ hostSubs'[s] = hostSubs[s]
             /\ commandCalls'[s] = commandCalls[s]
             /\ (\A i \in 1..Len(last'.invoked[s]) :
                     last'.invoked[s][i] = "hLog")
                    => eventListeners'[s] = eventListeners[s]]_vars

\* The load event arrived after the fallback timer had resolved the goto, on
\* a session that is attached and listening: the handler the caller had
\* registered for it ran, goto's did not.
C33_Witness ==
    /\ last.op = "event" /\ last.name = LoadEvent /\ last.s = NavSession
    /\ nav[NavSession].pc = "done" /\ nav[NavSession].by = "timer"
    /\ nav[NavSession].resolves = 1
    /\ attached[NavSession] /\ hostSubs[NavSession] = 1
    /\ last.invoked[NavSession] = <<"hLog">>

\* How often handler h is in the array arr.
Count(arr, h) == Cardinality({i \in 1..Len(arr) : arr[i] = h})

\* C38: a session holds goto's handlers only while a goto waits for the load,
\* and then once each: when goto has resolved, by an event or by the timer,
\* neither handler is registered and the fallback timer is not pending, so
\* that a later goto starts from a table without them.
C38_NoGotoHandlerLeftBehind ==
    \A s \in Session :
        /\ Count(eventListeners[s][LoadEvent], "onLoad") <= 1
        /\ Count(eventListeners[s][FrameEvent], "onFrameLoad") <= 1
        /\ nav[s].pc # "wait" => GotoHandlersGone(s) /\ ~nav[s].timer

\* A second goto on the session has resolved through the frame event, the
\* first having waited before it: no handler of either is registered.
C38_Witness ==
    /\ nav[NavSession].pc = "done" /\ nav[NavSession].by = "event"
    /\ nav[NavSession].armedAt >= 1
    /\ last.op = "event" /\ last.name = FrameEvent
    /\ last.invoked[NavSession] = <<"onFrameLoad">>
    /\ GotoHandlersGone(NavSession)
    /\ attached[NavSession]

\* A second goto on the session has resolved through the fallback timer.
C38_TimerWitness ==
    /\ nav[NavSession].pc = "done" /\ nav[NavSession].by = "timer"
    /\ nav[NavSession].armedAt >= 1
    /\ last.op = "fallbackTimer"
    /\ GotoHandlersGone(NavSession)


(***************************************************************************)
(* The operations of a page                                                *)
(***************************************************************************)
\* The selectors given to the operations: 'body' and one other selector.
Selector == {"body", "sel"}

\* options.timeout given to an operation, in polling intervals; 0 stands for
\* an absent or zero option.
TimeoutOption == {0, 2}

\* The texts given to fill: none, two different characters, and one with a
\* character repeated.
FillText == {<<>>, <<"a", "b">>, <<"b", "a", "a">>}

\* What the other selector matches in the tab.
DomState == {"absent", "hidden", "visible"}

\* The method was called and has neither returned nor thrown.
InProgress(o) == o.pc \notin {"idle", "done", "failed"}

\* value of a reply to the polling expression of waitForSelector in a tab in
\* state d: {found: false}, {found: true, visible: false} or {found: true,
\* visible: true}.
PollValue(d) == {d}

\* if (value?.found) { if (!options.visible || value.visible) return; }
Matched_IgnoresVisible(visible, v) == v \in {"hidden", "visible"}

Matched(visible, v) ==
    /\ v \in {"hidden", "visible"}
    /\ ~visible \/ v = "visible"

\* A value that || replaces: undefined, null and the empty string.
Falsy(v) == v \in {"undefined", "null", ""}

\* (value) || null
OrNull(v) == IF Falsy(v) THEN "null" ELSE v

\* (value) || []
OrEmpty(v) == IF Falsy(v) THEN "list0" ELSE v

\* The timeout option taken as it is.
Budget_NoDefault(o) == o.timeout

\* options.timeout || 30000
Budget(o) == IF o.timeout = 0 THEN DefaultTimeout ELSE o.timeout

\* Math.round of a coordinate given in halves.
Round_Down(h2) == h2 \div 2

Round(h2) == (h2 + 1) \div 2

\* The operation throws.
Throw(o, e) == [o EXCEPT !.pc = "failed", !.error = e, !.due = 0]

\* The operation returns.
Return(o, v) == [o EXCEPT !.pc = "done", !.value = v, !.due = 0]

\* The head of the polling loop of waitForSelector at time t: the next poll
\* while the budget lasts, its rejection caught and slept over when the
\* session is not attached, the timeout error after the budget.
LoopHead(o, t, att) ==
    IF t - o.start < Budget(o)
    THEN IF att THEN [o EXCEPT !.pc = "poll"]
                ELSE [o EXCEPT !.pc = "sleep", !.due = t + PollInterval]
    ELSE Throw(o, "timeout")

\* waitForSelector without the special case of 'body'.
WaitForSelector_AlwaysPolls(o, t, att) ==
    LET w == [o EXCEPT !.start = t]
    IN  IF att THEN [w EXCEPT !.pc = "enable"] ELSE LoopHead(w, t, att)

\* waitForSelector up to its first suspension.
WaitForSelector(o, t, att) ==
    IF o.sel = "body"
    THEN [o EXCEPT !.pc = "settle", !.due = t + BodySettle]
    ELSE LET w == [o EXCEPT !.start = t]
         IN  IF att THEN [w EXCEPT !.pc = "enable"] ELSE LoopHead(w, t, att)

\* The evaluation of an operation: sendCommand throws when not attached.
Evaluate(o, att) ==
    IF att THEN [o EXCEPT !.pc = "read"] ELSE Throw(o, "notAttached")

\* try { sendCommand('Runtime', 'enable') } catch {} and the evaluation after
\* it.
EnableThenEvaluate(o, att) ==
    IF att THEN [o EXCEPT !.pc = "enable2"] ELSE Evaluate(o, att)

\* The method that called waitForSelector goes on after it returned, at
\* time t: fill calls click, whose first statement is a waitForSelector of
\* its own, which has not polled yet.
AfterWait(o, t, att) ==
    CASE o.name = "waitForSelector" -> Return(o, "void")
      [] o.name = "textContent"     -> EnableThenEvaluate(o, att)
      [] o.name = "fill" /\ o.waits = 0 ->
             WaitForSelector([o EXCEPT !.waits = 1, !.poll = "none"], t, att)
      [] OTHER                      -> Evaluate(o, att)

\* A pointer event of click at the rounded centre.
Pointer(type, o) ==
    [type |-> type, x |-> Round(o.box[1]), y |-> Round(o.box[2])]

\* sendCommand('Input', 'dispatchMouseEvent', ...) of click.
Dispatch(o, type, next, att) ==
    IF att THEN [o EXCEPT !.pc = next, !.sent = Append(@, Pointer(type, o))]
           ELSE Throw(o, "notAttached")

\* The key events of the select-all chord, in the order fill sends them.
Chord == <<[type |-> "keyDown", key |-> 17], [type |-> "keyDown", key |-> 65],
           [type |-> "keyUp", key |-> 65], [type |-> "keyUp", key |-> 17]>>

\* The key events fill has handed to the host: all it sent but the two
\* pointer events of its click.
KeysSent(o) == SubSeq(o.sent, 3, Len(o.sent))

\* A loop over the text that sends the character after the next one.
NextKey_SkipsChar(o, att) ==
    LET n == Len(KeysSent(o))
        event == IF n < Len(Chord) THEN Chord[n + 1]
                 ELSE [type |-> "char",
                       text |-> o.text[IF n - Len(Chord) + 2 <= Len(o.text)
                                       THEN n - Len(Chord) + 2
                                       ELSE Len(o.text)]]
    IN  IF n >= Len(Chord) + Len(o.text) THEN Return(o, "void")
        ELSE IF att THEN [o EXCEPT !.pc = "key", !.sent = Append(@, event)]
        ELSE Throw(o, "notAttached")

\* fill after n key events were answered: the next key of the chord, then
\* for (const char of text) one char event each, then the return.
NextKey(o, att) ==
    LET n == Len(KeysSent(o))
        event == IF n < Len(Chord) THEN Chord[n + 1]
                 ELSE [type |-> "char", text |-> o.text[n - Len(Chord) + 1]]
    IN  IF n >= Len(Chord) + Len(o.text) THEN Return(o, "void")
        ELSE IF att THEN [o EXCEPT !.pc = "key", !.sent = Append(@, event)]
        ELSE Throw(o, "notAttached")

\* What the method does with the value of its evaluation.
AfterRead(o, att) ==
    CASE o.name = "textContent"  -> Return(o, OrNull(o.reply))
      [] o.name = "textContents" -> Return(o, OrEmpty(o.reply))
      [] o.name = "getAttribute" -> Return(o, OrNull(o.reply))
      [] OTHER -> IF Falsy(o.reply) THEN Throw(o, "notFound")
                  ELSE Dispatch(o, "mousePressed", "press", att)

\* How the turn left the operation.
Outcome(o) ==
    CASE o.pc = "done"   -> "resolved"
      [] o.pc = "failed" -> "rejected"
      [] OTHER           -> "pending"

\* A turn of the event loop that takes the operation of the page to o2.
OpTurn(op, o2) ==
    /\ po' = o2
    /\ commandCalls' = [commandCalls EXCEPT ![NavSession] =
                            @ - Pending(po) + Pending(o2)]
    /\ last' = Turn(op, NavSession, o2.name, Outcome(o2))
    /\ UNCHANGED <<attached, eventListeners, listenerSet, hostSubs,
                   hostAttached, attachCalls, detachCalls>>
    /\ UNCHANGED <<orchVars, ipVars, pageVars, dom, netVars, scr>>

\* A method of the page is called; the caller awaits one method at a time.
OpCall(name, sel, visible, timeout) ==
    /\ ~InProgress(po)
    /\ UNCHANGED calls
    /\ LET o == [NoOp EXCEPT !.name = name, !.sel = sel, !.visible = visible,
                             !.timeout = timeout]
           att == attached[NavSession]
       IN  OpTurn("call",
                  IF name = "textContents" \/ (name = "textContent" /\ sel = "body")
                  THEN EnableThenEvaluate(o, att)
                  ELSE WaitForSelector(o, 0, att))
    /\ now' = 0

waitForSelector(sel, visible, timeout) ==
    OpCall("waitForSelector", sel, visible, timeout)

textContent(sel) == OpCall("textContent", sel, FALSE, 0)

textContents(sel) == OpCall("textContents", sel, FALSE, 0)

getAttribute(sel) == OpCall("getAttribute", sel, FALSE, 0)

click(sel, timeout) == OpCall("click", sel, TRUE, timeout)

\* fill(selector, text) up to its first suspension, in waitForSelector(
\* selector, {visible: true}).
fill(sel, text) ==
    /\ ~InProgress(po)
    /\ UNCHANGED calls
    /\ OpTurn("call",
              WaitForSelector([NoOp EXCEPT !.name = "fill", !.sel = sel,
                                           !.visible = TRUE, !.text = text],
                              0, attached[NavSession]))
    /\ now' = 0

\* The host answers a command of the operation with a result only for a tab
\* it has a debugger on.
OpReply(at, ok) ==
    /\ po.pc = at
    /\ ok => hostAttached[NavSession]
    /\ UNCHANGED <<calls, now>>

\* Callback of Runtime.enable: its error is swallowed.
OnRuntimeEnabled(ok) ==
    \/ /\ OpReply("enable", ok)
       /\ OpTurn("enabled", LoopHead(po, now, attached[NavSession]))
    \/ /\ OpReply("enable2", ok)
       /\ OpTurn("enabled", Evaluate(po, attached[NavSession]))

\* Callback of the poll of waitForSelector: a match returns, anything else,
\* an error included, sleeps for the polling interval.  When the match lets
\* fill call click, the time is counted from that call.
OnPolled(ok, v) ==
    /\ po.pc = "poll"
    /\ ok => hostAttached[NavSession]
    /\ UNCHANGED calls
    /\ LET o == [po EXCEPT !.poll = IF ok THEN v ELSE "error"]
           found == ok /\ Matched(po.visible, v)
       IN  /\ now' = IF found /\ po.name = "fill" /\ po.waits = 0 THEN 0
                                                                  ELSE now
           /\ OpTurn("polled",
                     IF found
                     THEN AfterWait(o, now', attached[NavSession])
                     ELSE [o EXCEPT !.pc = "sleep",
                                    !.due = now + PollInterval])

\* The timer of _sleep(500) fires: the loop goes on at its head.
SleepFires ==
    /\ po.pc = "sleep"
    /\ now >= po.due
    /\ UNCHANGED <<calls, now>>
    /\ OpTurn("timer", LoopHead(po, now, attached[NavSession]))

\* The timer of _sleep(1000) fires: waitForSelector('body') returns.
SettleFires ==
    /\ po.pc = "settle"
    /\ now >= po.due
    /\ UNCHANGED <<calls, now>>
    /\ OpTurn("timer", AfterWait(po, now, attached[NavSession]))

\* Callback of the evaluation of textContent, textContents, getAttribute and
\* click: v is result.result?.value, b the centre when it is a position.
OnRead(ok, v, b) ==
    /\ OpReply("read", ok)
    /\ OpTurn("read",
              IF ok THEN AfterRead([po EXCEPT !.reply = v, !.box = b],
                                   attached[NavSession])
                    ELSE Throw(po, "commandError"))

\* Callback of the mousePressed command: the release follows.
OnPressed(ok) ==
    /\ OpReply("press", ok)
    /\ OpTurn("pressed",
              IF ok THEN Dispatch(po, "mouseReleased", "release",
                                  attached[NavSession])
                    ELSE Throw(po, "commandError"))

\* Callback of the mouseReleased command: click returns, and fill goes on
\* with _sleep(100).
OnReleased(ok) ==
    /\ OpReply("release", ok)
    /\ OpTurn("released",
              CASE ~ok -> Throw(po, "commandError")
                [] ok /\ po.name = "fill" ->
                       [po EXCEPT !.pc = "focus", !.due = now + FocusSettle]
                [] OTHER -> Return(po, "void"))

\* The timer of _sleep(100) fires: fill sends the first key of the chord.
FocusFires ==
    /\ po.pc = "focus"
    /\ now >= po.due
    /\ UNCHANGED <<calls, now>>
    /\ OpTurn("timer", NextKey(po, attached[NavSession]))

\* Callback of a dispatchKeyEvent command: the next key event follows, and
\* fill returns after the last character.
OnKeySent(ok) ==
    /\ OpReply("key", ok)
    /\ OpTurn("keySent",
              IF ok THEN NextKey(po, attached[NavSession])
                    ELSE Throw(po, "commandError"))

\* The centres an element's bounding box may have, in halves of a pixel.
Centre == {<<4, 7>>, <<5, 6>>}

\* What the evaluation of the operation in progress may yield in a tab in
\* state d: null without an element; the text, the attribute or the position
\* of the element; no value when the expression throws.
ReadValue(name, d) ==
    CASE name = "textContent" ->
             IF d = "absent" THEN {"null"} ELSE {"", "text"}
      [] name = "textContents" ->
             IF d = "absent" THEN {"list0"} ELSE {"list0", "list1"}
      [] name = "getAttribute" ->
             IF d = "absent" THEN {"null", "undefined"}
                             ELSE {"null", "", "text", "undefined"}
      [] OTHER ->
             IF d = "absent" THEN {"null", "undefined"}
                             ELSE {"box", "undefined"}

\* The page adds, hides, shows or removes the element before the caller's
\* last method has settled.
DomChanges(d) ==
    /\ d # dom
    /\ InProgress(po) \/ po.pc = "idle"
    /\ dom' = d
    /\ UNCHANGED <<sessVars, pageVars, po, now, netVars, scr>>
    /\ UNCHANGED <<orchVars, ipVars>>

\* A polling interval passes while a method of the page is in progress or
\* waitForNetworkIdle waits for its timer; a due timer callback is run within
\* Slack.  The time is not followed while fill sends its key events: no
\* timer is pending then and no budget is looked at any more.
TimePasses ==
    /\ now < MaxNow
    /\ (InProgress(po) /\ po.pc # "key") \/ ni.pc = "wait"
    /\ po.pc \in {"sleep", "settle", "focus"} => now < po.due + Slack
    /\ ni.timer => now < ni.due + Slack
    /\ now' = now + 1
    /\ UNCHANGED <<sessVars, pageVars, po, dom, netVars, scr>>
    /\ UNCHANGED <<orchVars, ipVars>>

\* The caller of the page does as the scrapers do: it awaits each call
\* before the next, and calls nothing after detach.
Awaited ==
    /\ ~InProgress(po)
    /\ attachCalls[NavSession] = 0
    /\ detachCalls[NavSession] = 0
    /\ calls <= 1

\* What the caller of the page does: it attaches once, calls methods and
\* detaches once at the end.
OpCaller ==
    \/ Awaited /\ calls = 0 /\ attach(NavSession)
    \/ Awaited /\ calls = 1 /\ detach(NavSession)
    \/ Awaited /\ \E sel \in Selector, visible \in BOOLEAN,
                         timeout \in TimeoutOption :
                      waitForSelector(sel, visible, timeout)
    \/ Awaited /\ \E sel \in Selector : textContent(sel)
    \/ Awaited /\ textContents("sel")
    \/ Awaited /\ getAttribute("sel")
    \/ Awaited /\ \E timeout \in TimeoutOption : click("sel", timeout)
    \/ Awaited /\ \E text \in FillText : fill("sel", text)

\* What the host, the tab and the timers do.
OpStep ==
    \/ \E ok \in BOOLEAN : OnAttached(NavSession, ok)
    \/ OnDetached(NavSession)
    \/ \E ok \in BOOLEAN : OnRuntimeEnabled(ok)
    \/ \E ok \in BOOLEAN : \E v \in PollValue(dom) : OnPolled(ok, v)
    \/ \E ok \in BOOLEAN : \E v \in ReadValue(po.name, dom) :
           \E b \in IF v = "box" THEN Centre ELSE {<<0, 0>>} : OnRead(ok, v, b)
    \/ \E ok \in BOOLEAN : OnPressed(ok)
    \/ \E ok \in BOOLEAN : OnReleased(ok)
    \/ \E ok \in BOOLEAN : OnKeySent(ok)
    \/ FocusFires
    \/ SleepFires
    \/ SettleFires
    \/ \E d \in DomState : DomChanges(d)
    \/ TimePasses

NextPage == OpCaller \/ OpStep

SpecPage == Init /\ [][NextPage]_vars


(***************************************************************************)
(* waitForNetworkIdle                                                      *)
(***************************************************************************)
\* The timeout given to waitForNetworkIdle, in polling intervals.
NetTimeout == {2, 3}

\* setTimeout(() => { off(...); off(...); resolve(); }, timeout) into
\* idleTimer.
SetIdleTimer(w, t, by) == [w EXCEPT !.timer = TRUE, !.due = t + w.timeout,
                                    !.by = by]

\* onRequest: requestCount++, the timer in idleTimer is cleared.
onRequest(w) == [w EXCEPT !.count = @ + 1, !.timer = FALSE]

\* onResponse: requestCount--, and at zero or below the timer in idleTimer is
\* cleared and a new one set.
onResponse(w, t) ==
    LET c == [w EXCEPT !.count = @ - 1]
    IN  IF c.count <= 0 THEN SetIdleTimer(c, t, "response") ELSE c

\* The callback of the timer: both handlers are taken off, the promise is
\* resolved.
IdleTimeout_KeepsHandlers(w) ==
    [w EXCEPT !.timer = FALSE, !.pc = "done", !.resolves = @ + 1]

IdleTimeout(w) ==
    [w EXCEPT !.timer = FALSE, !.handlers = {}, !.pc = "done",
              !.resolves = @ + 1]

\* A turn of the event loop that takes the wait to w2 and the requests of the
\* tab to tr2.
NetTurn(op, w2, tr2) ==
    /\ ni' = w2
    /\ traffic' = tr2
    /\ commandCalls' = [commandCalls EXCEPT ![NavSession] =
                            @ - (IF ni.pc = "enable" THEN 1 ELSE 0)
                              + (IF w2.pc = "enable" THEN 1 ELSE 0)]
    /\ last' = Turn(op, NavSession, "waitForNetworkIdle",
                    CASE w2.pc = "done" -> "resolved"
                      [] w2.pc = "failed" -> "rejected"
                      [] OTHER -> "pending")
    /\ UNCHANGED <<attached, eventListeners, listenerSet, hostSubs,
                   hostAttached, attachCalls, detachCalls, calls>>
    /\ UNCHANGED <<orchVars, ipVars, pageVars, po, dom, scr>>

\* waitForNetworkIdle(timeout): sendCommand('Network', 'enable') throws when
\* the session is not attached.
waitForNetworkIdle(timeout) ==
    /\ ni.pc = "idle"
    /\ ~InProgress(po)
    /\ now' = 0
    /\ NetTurn("call",
               [NoWait EXCEPT !.timeout = timeout,
                              !.pc = IF attached[NavSession] THEN "enable"
                                                             ELSE "failed"],
               traffic)

\* Callback of the Network.enable command, and the executor of the promise:
\* both handlers are registered and the first timer is set.
OnNetworkEnabled(ok) ==
    /\ ni.pc = "enable"
    /\ ok => hostAttached[NavSession]
    /\ UNCHANGED now
    /\ NetTurn("enabled",
               IF ok THEN SetIdleTimer([ni EXCEPT !.pc = "wait", !.since = now,
                                                  !.handlers = {"onRequest",
                                                                "onResponse"}],
                                       now, "initial")
                     ELSE [ni EXCEPT !.pc = "failed"],
               traffic)

\* A request begins in the tab; the host sends Network.requestWillBeSent to a
\* session it has a debugger for, and onRequest runs when it is registered.
RequestBegins ==
    /\ traffic.begun < MaxRequests
    /\ UNCHANGED now
    /\ IF hostAttached[NavSession] /\ "onRequest" \in ni.handlers
       THEN NetTurn("request", onRequest(ni),
                    [traffic EXCEPT !.seen = @ + 1, !.begun = @ + 1,
                                    !.sawOne = TRUE])
       ELSE NetTurn("request", ni,
                    [traffic EXCEPT !.unseen = @ + 1, !.begun = @ + 1])

\* The response of a request in flight arrives; the host sends
\* Network.responseReceived, and onResponse runs when it is registered.
ResponseArrives(sawBegin) ==
    /\ IF sawBegin THEN traffic.seen > 0 ELSE traffic.unseen > 0
    /\ UNCHANGED now
    /\ NetTurn("response",
               IF hostAttached[NavSession] /\ "onResponse" \in ni.handlers
               THEN onResponse(ni, now) ELSE ni,
               IF sawBegin
               THEN [traffic EXCEPT !.seen = @ - 1, !.lastEnd = now]
               ELSE [traffic EXCEPT !.unseen = @ - 1])

\* The timer in idleTimer fires.
IdleTimerFires ==
    /\ ni.timer
    /\ now >= ni.due
    /\ UNCHANGED now
    /\ NetTurn("timer", IdleTimeout(ni), traffic)

\* The caller attaches and waits for the network to be idle while the tab
\* loads.
NextNet ==
    \/ calls = 0 /\ attachCalls[NavSession] = 0 /\ attach(NavSession)
    \/ \E ok \in BOOLEAN : OnAttached(NavSession, ok)
    \/ attachCalls[NavSession] = 0
           /\ \E timeout \in NetTimeout : waitForNetworkIdle(timeout)
    \/ \E ok \in BOOLEAN : OnNetworkEnabled(ok)
    \/ RequestBegins
    \/ \E sawBegin \in BOOLEAN : ResponseArrives(sawBegin)
    \/ IdleTimerFires
    \/ TimePasses

SpecNet == Init /\ [][NextNet]_vars


(***************************************************************************)
(* Claims about the operations of a page                                   *)
(***************************************************************************)

\* The waitForSelector of the method in progress, or of the method that
\* settled last, returned.
WaitReturned(o) ==
    \/ o.name = "waitForSelector" /\ o.pc = "done"
    \/ o.name \in {"getAttribute", "click"}
           /\ o.pc \in {"read", "press", "release", "done"}
    \/ o.name = "textContent" /\ o.sel # "body"
           /\ o.pc \in {"enable2", "read", "done"}

\* The last poll answered saw the selector match, visibly when that was asked.
PollSawMatch(o) ==
    /\ o.poll \in {"hidden", "visible"}
    /\ o.visible => o.poll = "visible"

\* What waitForSelector does when it fails: the timeout error, not before the
\* budget has passed, the last poll not having seen a match.
FailsByTimeoutOnly(o) ==
    /\ (o.name = "waitForSelector" /\ o.pc = "failed") => o.error = "timeout"
    /\ o.error = "timeout" => /\ now - o.start >= Budget(o)
                              /\ ~PollSawMatch(o)

\* C21 as stated: waitForSelector never returns before a poll has seen the
\* selector match (visibly when visible is asked), whatever the selector; it
\* fails with the timeout error only, and not before the budget has passed.
C21_ReturnsOnlyAfterMatch_AnySelector ==
    /\ WaitReturned(po) => PollSawMatch(po)
    /\ FailsByTimeoutOnly(po)

\* C21, amended: for a selector other than 'body', waitForSelector never
\* returns before a poll has seen the selector match (visibly when visible is
\* asked); for 'body' it returns after the settle delay without a poll; it
\* fails with the timeout error only, and not before the budget has passed.
C21_ReturnsOnlyAfterMatch ==
    /\ (WaitReturned(po) /\ po.sel # "body") => PollSawMatch(po)
    /\ (WaitReturned(po) /\ po.sel = "body")
           => po.poll = "none" /\ now >= BodySettle
    /\ FailsByTimeoutOnly(po)

\* waitForSelector with visible asked returned on the reply of a poll that
\* saw a visible match, at least one polling interval after it was called.
C21_Witness ==
    /\ po.name = "waitForSelector" /\ po.pc = "done"
    /\ po.sel = "sel" /\ po.visible /\ po.poll = "visible"
    /\ now >= PollInterval
    /\ last.op = "polled"

\* waitForSelector failed with the timeout error after polls that did not
\* match.
C21_TimeoutWitness ==
    /\ po.name = "waitForSelector" /\ po.pc = "failed"
    /\ po.error = "timeout" /\ po.poll = "hidden" /\ po.visible
    /\ attached[NavSession]

\* C34: waitForSelector('body') sends no command and no poll, whatever its
\* options and whether or not the session is attached: the call only sets
\* the settle timer, nothing but that timer moves it, and it returns, never
\* throws, when the settle delay has passed.
C34_BodyShortCircuits ==
    [][(po'.name = "waitForSelector" /\ po'.sel = "body" /\ po' # po)
          => /\ commandCalls' = commandCalls
             /\ po'.poll = "none" /\ po'.sent = <<>>
             /\ \/ /\ last'.op = "call"
                   /\ po'.pc = "settle" /\ po'.due = now' + BodySettle
                \/ /\ last'.op = "timer" /\ po.pc = "settle"
                   /\ po'.pc = "done" /\ po'.value = "void"
                   /\ now' >= po.due]_vars

\* waitForSelector('body') with visible asked and a timeout given
\* returned on a session that is not attached.
C34_Witness ==
    /\ po.name = "waitForSelector" /\ po.sel = "body" /\ po.pc = "done"
    /\ po.visible /\ po.timeout = 2
    /\ ~attached[NavSession]
    /\ now >= BodySettle

\* C40: waitForSelector on a selector other than 'body' ends in success or
\* in the timeout error only.  A poll that fails, by an error reply or by the
\* rejection of sendCommand on a session that is not attached, is swallowed:
\* the loop sleeps one polling interval and goes on while the budget lasts;
\* the timeout error is thrown only once the budget, 30000 ms when the
\* timeout option is 0 or absent, is used up.
C40_PollErrorsSwallowed ==
    [][(po'.name = "waitForSelector" /\ po'.sel # "body" /\ po' # po)
          => LET budget == IF po'.timeout = 0 THEN DefaultTimeout ELSE po'.timeout
                 spent  == now' - po'.start
             IN  /\ po'.pc = "failed"
                     => po'.error = "timeout" /\ spent >= budget
                 /\ (last'.op = "polled" /\ po'.poll = "error")
                     => po'.pc = "sleep" /\ po'.due = now' + PollInterval
                 /\ (last'.op \in {"call", "timer"} /\ ~attached[NavSession])
                     => IF spent < budget
                        THEN po'.pc = "sleep" /\ po'.due = now' + PollInterval
                        ELSE po'.pc = "failed"
                 /\ (last'.op = "timer" /\ attached[NavSession])
                     => /\ now' >= po.due
                        /\ po'.pc = IF spent < budget THEN "poll"
                                                      ELSE "failed"]_vars

\* waitForSelector without a timeout option threw the timeout error after the
\* default budget, its last poll answered by an error.
C40_Witness ==
    /\ po.name = "waitForSelector" /\ po.sel = "sel" /\ po.pc = "failed"
    /\ po.timeout = 0 /\ po.error = "timeout" /\ po.poll = "error"
    /\ now - po.start >= DefaultTimeout
    /\ attached[NavSession]

\* waitForSelector threw the timeout error on a session that was never
\* attached: every sendCommand of its loop was rejected.
C40_NotAttachedWitness ==
    /\ po.name = "waitForSelector" /\ po.sel = "sel" /\ po.pc = "failed"
    /\ po.error = "timeout" /\ po.poll = "none"
    /\ ~attached[NavSession] /\ ~hostAttached[NavSession]

\* C22: every waiting operation is time-bounded.  A waitForSelector, click or
\* getAttribute in progress has resolved or raised the timeout error once its
\* budget, the settle delay, a polling interval and the slack of the timers
\* have passed since it was called, also when a reply is late or never
\* delivered.
C22_WaitsAreTimeBounded ==
    (InProgress(po) /\ po.name \in {"waitForSelector", "click", "getAttribute"})
        => now - po.start <= Budget(po) + BodySettle + PollInterval + Slack

\* C23: when the selector matches no element, textContent returns null and
\* does not throw, and textContents returns the empty sequence and does not
\* throw.  The selector is seen to match no element by the polls and by the
\* evaluation of the method; a method whose command failed is left aside.
C23_NoMatchGivesNullOrEmpty ==
    /\ ( /\ po.name = "textContent" /\ po.sel = "sel"
         /\ po.pc \in {"done", "failed"}
         /\ po.poll = "absent" /\ po.reply \in {"none", "null"}
         /\ po.error \notin {"notAttached", "commandError"} )
           => po.pc = "done" /\ po.value = "null"
    /\ ( /\ po.name = "textContents"
         /\ po.pc \in {"done", "failed"}
         /\ po.reply = "list0" )
           => po.pc = "done" /\ po.value = "list0"

\* C24: getAttribute returns the value of the attribute when the element has
\* it, the empty string included, and null when the evaluation yields null.
C24_AttributeValueOrNull ==
    (po.name = "getAttribute" /\ po.pc = "done")
        => po.value = IF po.reply \in {"", "text"} THEN po.reply ELSE "null"

\* The whole number nearest to a coordinate given in halves, the upper one of
\* two that are equally near.
Nearest(h2) == IF h2 % 2 = 0 THEN h2 \div 2 ELSE (h2 + 1) \div 2

C30_NotFoundWitness ==
    /\ po.name = "click" /\ po.pc = "failed" /\ po.error = "notFound"
    /\ po.poll = "visible" /\ po.reply = "null" /\ dom = "absent"
    /\ po.sent = <<>>

\* Everything a fill of o.text hands to the host when nothing fails: the
\* press and the release of its click, Ctrl down, A down, A up, Ctrl up, and
\* one char event for each character in the order of the text.
FillEvents(o) ==
    <<[type |-> "mousePressed", x |-> Nearest(o.box[1]),
       y |-> Nearest(o.box[2])],
      [type |-> "mouseReleased", x |-> Nearest(o.box[1]),
       y |-> Nearest(o.box[2])],
      [type |-> "keyDown", key |-> 17], [type |-> "keyDown", key |-> 65],
      [type |-> "keyUp", key |-> 65], [type |-> "keyUp", key |-> 17]>>
    \o [i \in 1..Len(o.text) |-> [type |-> "char", text |-> o.text[i]]]

\* C31: fill issues its commands in a fixed order.  What it has handed to
\* the host is at any time the beginning of: the click, the select-all chord,
\* one char event per character in the order of the text; nothing is sent
\* before both waits, its own and that of click, saw a visible match; it
\* returns only when all of it was sent; each event is sent alone, when the
\* one before was answered or the timer of the focus delay fired.
C31_FillOrder ==
    /\ [](po.name = "fill" =>
             /\ Len(po.sent) <= Len(FillEvents(po))
             /\ po.sent = SubSeq(FillEvents(po), 1, Len(po.sent))
             /\ po.sent # <<>> => po.waits = 1 /\ po.poll = "visible"
             /\ po.pc = "done" => po.sent = FillEvents(po)
             /\ po.pc = "key" => Len(po.sent) > 2)
    /\ [][(po'.name = "fill" /\ po'.sent # po.sent /\ po'.sent # <<>>)
             => /\ Len(po'.sent) = Len(po.sent) + 1
                /\ po.pc \in {"read", "press", "focus", "key"}
                /\ po.pc = "focus" <=> Len(po.sent) = 2
                /\ commandCalls'[NavSession] <= 1]_vars

\* fill returned after the click, the chord and the three characters of a
\* text in which a character is repeated.
C31_Witness ==
    /\ po.name = "fill" /\ po.pc = "done"
    /\ po.text = <<"b", "a", "a">>
    /\ Len(po.sent) = 9
    /\ po.sent[6] = [type |-> "keyUp", key |-> 17]
    /\ po.sent[7] = [type |-> "char", text |-> "b"]
    /\ po.sent[9] = [type |-> "char", text |-> "a"]

\* fill returned for the empty text: the chord was its last command.
C31_EmptyTextWitness ==
    /\ po.name = "fill" /\ po.pc = "done" /\ po.text = <<>>
    /\ Len(po.sent) = 6


(***************************************************************************)
(* Claims about waitForNetworkIdle                                         *)
(***************************************************************************)

\* The turn just taken resolved the wait.
JustResolved ==
    /\ last.op = "timer"
    /\ last.name = "waitForNetworkIdle"
    /\ ni.pc = "done"

\* C25: waitForNetworkIdle resolves only when no request whose begin it saw
\* is in flight, timeout after the last of them ended (within the slack of
\* the timer), and timeout after its handlers were registered when it saw no
\* request at all.
C25_ResolvesAfterIdleWindow ==
    JustResolved =>
        /\ traffic.seen = 0
        /\ LET from == IF traffic.sawOne THEN traffic.lastEnd ELSE ni.since
           IN  /\ now >= from + ni.timeout
               /\ now <= from + ni.timeout + Slack

\* C37: while waitForNetworkIdle waits, requestCount is never negative and is
\* the number of requests in flight whose begin its handlers saw; so it never
\* resolves while such a request is in flight.
C37_CountIsObservedInFlight ==
    /\ ni.pc = "wait" => ni.count >= 0 /\ ni.count = traffic.seen
    /\ JustResolved => traffic.seen = 0

\* C26: when waitForNetworkIdle has resolved, neither of its handlers is in
\* the listener table and no timer of it is pending, on the path of the
\* first timer and on the path of a timer set by a response; it resolves at
\* most once.
C26_ResolvedWaitHoldsNoHandler ==
    /\ ni.resolves <= 1
    /\ ni.pc = "done" => /\ ni.handlers = {}
                         /\ ~ni.timer
                         /\ ni.resolves = 1
    /\ ni.pc = "wait" => /\ ni.handlers = {"onRequest", "onResponse"}
                         /\ ni.resolves = 0

\* The wait resolved by a timer that a response had set, after a request it
\* saw had ended.
C26_Witness ==
    /\ JustResolved
    /\ ni.by = "response"
    /\ traffic.sawOne /\ traffic.seen = 0
    /\ ni.handlers = {}

\* The wait resolved by its first timer.
C26_InitialTimerWitness ==
    /\ JustResolved
    /\ ni.by = "initial"
    /\ ni.handlers = {}
    /\ now >= ni.since + ni.timeout


(***************************************************************************)
(* The scrapers, statement by statement                                    *)
(*   const page = await createPage(tabId);                                 *)
(*   try { goto; waits; reads; return data }                               *)
(*   catch { return {source, ip, error} }                                  *)
(*   finally { await page.context.detach() }                               *)
(***************************************************************************)
\* An awaited call of the try block: the field it reads ("none" for a call
\* that reads none), whether it stands in a try/catch of its own, and whether
\* the method can throw.
Await(name, field, guarded, throws) ==
    [name |-> name, field |-> field, guarded |-> guarded, throws |-> throws]

Read(field) == Await(field, field, TRUE, TRUE)

\* The awaited calls of the try block of each scraper, in order.
TrySteps ==
    [virustotal |->
        << Await("goto", "none", FALSE, TRUE),
           Await("waitForTimeout", "none", FALSE, FALSE),
           Await("scrollTo", "none", FALSE, TRUE),
           Await("waitForTimeout2", "none", FALSE, FALSE),
           Await("pageText", "rawContent", FALSE, TRUE),
           Read("reputation"), Read("detection"), Read("lastAnalysis"),
           Read("country"), Read("asn"), Read("network") >>,
     ipinfo |->
        << Await("goto", "none", FALSE, TRUE),
           Await("waitForTimeout", "none", FALSE, FALSE),
           Await("waitForSelector", "none", FALSE, FALSE),
           Read("pageContent"), Read("country"), Read("city"), Read("org"),
           Read("location"), Read("rawContent") >>,
     abuseipdb |->
        << Await("goto", "none", FALSE, TRUE),
           Await("waitForTimeout", "none", FALSE, FALSE),
           Read("abuseConfidence"), Read("status"), Read("usageType"),
           Read("isp"), Read("domain"), Read("country"), Read("reports"),
           Read("lastReported"), Read("rawContent") >>]

\* The names of the awaited calls of a scraper.
StepNames(src) == {TrySteps[src][k].name : k \in 1..Len(TrySteps[src])}

\* The try block goes on after its call i: to the next call, or to `return
\* data`.
Advance(r) ==
    IF r.i = Len(TrySteps[r.src])
    THEN [r EXCEPT !.result = "data", !.pc = "finally"]
    ELSE [r EXCEPT !.i = @ + 1]

\* The awaited call i of the try block returned or threw: an exception in a
\* try/catch of its own leaves the field out, any other reaches the outer
\* catch, which returns the failure object.
AfterAwait(r, thrown) ==
    LET st == TrySteps[r.src][r.i]
        ran == [r EXCEPT !.tried = @ \cup {st.name}]
    IN  IF ~thrown THEN Advance(ran)
        ELSE IF st.guarded
             THEN Advance([ran EXCEPT !.failed = @ \cup {st.field}])
             ELSE [ran EXCEPT !.thrower = st.name, !.result = "failure",
                              !.pc = "finally"]

\* What a turn of the scraper leaves alone besides the session.
ScraperFrame == UNCHANGED <<orchVars, ipVars, pageVars, po, dom, now, netVars>>

\* The scraper is called: createPage makes the session and calls attach().
scrape(src) ==
    /\ scr.pc = "idle"
    /\ SessionAttach(NavSession)
    /\ scr' = [NoScrape EXCEPT !.src = src, !.pc = "attaching"]
    /\ ScraperFrame

\* Callback of chrome.debugger.attach: createPage resolves and the try block
\* begins, or createPage rejects outside the try block and with it the
\* promise of the scraper.
createPage(ok) ==
    /\ scr.pc = "attaching"
    /\ SessionAttached(NavSession, ok)
    /\ scr' = IF ok THEN [scr EXCEPT !.pc = "try", !.i = 1]
                    ELSE [scr EXCEPT !.pc = "settled", !.promise = "rejected"]
    /\ ScraperFrame

\* An awaited call of the try block settles.  When the try or the catch block
\* returns, the finally block calls detach(), which resolves at once when the
\* session is not attached.
PageMethodSettles(thrown) ==
    /\ scr.pc = "try"
    /\ thrown => TrySteps[scr.src][scr.i].throws
    /\ LET r == AfterAwait(scr, thrown)
       IN  IF r.pc = "finally"
           THEN /\ SessionDetach(NavSession)
                /\ scr' = IF attached[NavSession]
                          THEN [r EXCEPT !.pc = "detaching"]
                          ELSE [r EXCEPT !.pc = "settled",
                                         !.promise = "resolved"]
           ELSE /\ scr' = r
                /\ UNCHANGED sessVars
    /\ ScraperFrame

\* Callback of chrome.debugger.detach: the promise of the scraper resolves
\* with what the try or the catch block returned, or rejects with the error
\* of detach.
finally(ok) ==
    /\ scr.pc = "detaching"
    /\ ok = hostAttached[NavSession]
    /\ SessionDetached(NavSession)
    /\ scr' = [scr EXCEPT !.pc = "settled",
                          !.promise = IF ok THEN "resolved" ELSE "rejected"]
    /\ ScraperFrame

NextScraper ==
    \/ \E src \in Source : scrape(src)
    \/ \E ok \in BOOLEAN : createPage(ok)
    \/ \E thrown \in BOOLEAN : PageMethodSettles(thrown)
    \/ \E ok \in BOOLEAN : finally(ok)
    \/ HostDetaches(NavSession)

SpecScraper == Init /\ [][NextScraper]_vars


(***************************************************************************)
(* Claims about the scrapers                                               *)
(***************************************************************************)

\* C27: the promise of a scraper never rejects, whatever attach, the awaited
\* calls and detach do: it resolves with the data object or with the failure
\* object.
C27_ScraperNeverRejects ==
    /\ scr.promise # "rejected"
    /\ scr.pc = "settled" => scr.result \in {"data", "failure"}

\* C28: when a scraper call whose attach succeeded has settled, its session
\* is not attached, has no listener subscribed with the host and holds no
\* handler.
C28_SettledScraperHasDetached ==
    (scr.pc = "settled" /\ scr.i > 0)
        => /\ ~attached[NavSession]
           /\ ~listenerSet[NavSession]
           /\ hostSubs[NavSession] = 0
           /\ eventListeners[NavSession] = NoListeners

\* C29: a read of a field that throws after navigation succeeded leaves that
\* field out and nothing else: no read of a field makes the try block end in
\* the failure object, and the data object is returned after every call of
\* the try block ran.
C29_FieldFailureKeepsTask ==
    /\ scr.result = "failure" =>
           \A k \in 1..Len(TrySteps[scr.src]) :
               TrySteps[scr.src][k].name = scr.thrower
                   => TrySteps[scr.src][k].field = "none"
    /\ scr.result = "data" => scr.tried = StepNames(scr.src)

====
